---- MODULE Spec2Model ----
(***************************************************************************)
(* A model of the lichess bot agent: the dispatcher (streamLichessEvents), *)
(* the per-game workers (streamGameEvents), the registry (activeGames,     *)
(* activeGamesMutex) and the move-resolution turn (checkAndMakeMove,       *)
(* getBestMoveFromLLM, makeMove).                                          *)
(*                                                                         *)
(* Go strings are sequences of one-character strings, so that trimming,    *)
(* splitting, lower-casing and substring search are computed, not assumed. *)
(***************************************************************************)
EXTENDS Integers, Sequences, FiniteSets, TLC

(***************************************************************************)
(* Bounds of the model.                                                    *)
(***************************************************************************)
\* The longest move list a record of a game stream carries.
MaxMoves == 2

\* The goroutine slots for streamGameEvents; a slot is reused once its
\* goroutine has returned, so any number of games is played in sequence.
Workers == {"w1", "w2"}

(***************************************************************************)
(* Strings.                                                                *)
(***************************************************************************)
EmptyStr == <<>>

RECURSIVE Concat(_)
\* s1 + s2 + ... for a sequence of strings (fmt.Sprintf with %s verbs).
Concat(parts) ==
    IF parts = <<>> THEN <<>> ELSE Head(parts) \o Concat(Tail(parts))

\* strings.ToLower on the letters the modelled texts use.
LowerOf ==
    ("A" :> "a") @@ ("B" :> "b") @@ ("C" :> "c") @@ ("D" :> "d") @@
    ("E" :> "e") @@ ("F" :> "f") @@ ("G" :> "g") @@ ("H" :> "h") @@
    ("I" :> "i") @@ ("J" :> "j") @@ ("K" :> "k") @@ ("L" :> "l") @@
    ("M" :> "m") @@ ("N" :> "n") @@ ("O" :> "o") @@ ("P" :> "p") @@
    ("Q" :> "q") @@ ("R" :> "r") @@ ("S" :> "s") @@ ("T" :> "t") @@
    ("U" :> "u") @@ ("V" :> "v") @@ ("W" :> "w") @@ ("X" :> "x") @@
    ("Y" :> "y") @@ ("Z" :> "z")

ToLower(s) ==
    [i \in DOMAIN s |-> IF s[i] \in DOMAIN LowerOf THEN LowerOf[s[i]] ELSE s[i]]

\* strings.Contains(s, sub)
Contains(s, sub) ==
    \E i \in 0..(Len(s) - Len(sub)) : SubSeq(s, i + 1, i + Len(sub)) = sub

\* The characters strings.TrimSpace and strings.Fields treat as white space
\* (unicode.IsSpace), among those the lines of this model are made of.
WhiteSpace == {" ", "\t", "\n", "\r", "\f"}

RECURSIVE TrimLeft(_)
TrimLeft(s) ==
    IF s # <<>> /\ Head(s) \in WhiteSpace THEN TrimLeft(Tail(s)) ELSE s

RECURSIVE TrimRight(_)
TrimRight(s) ==
    IF s # <<>> /\ s[Len(s)] \in WhiteSpace
    THEN TrimRight(SubSeq(s, 1, Len(s) - 1)) ELSE s

\* strings.TrimSpace(s)
TrimSpace(s) == TrimRight(TrimLeft(s))

\* strings.ContainsAny(s, chars)
ContainsAny(s, chars) == \E i \in DOMAIN s : s[i] \in chars

RECURSIVE FieldsFrom(_, _, _)
\* The words of s from position i on, cur being the word read so far.
FieldsFrom(s, i, cur) ==
    IF i > Len(s)
    THEN IF cur = <<>> THEN <<>> ELSE <<cur>>
    ELSE IF s[i] \in WhiteSpace
         THEN IF cur = <<>> THEN FieldsFrom(s, i + 1, <<>>)
              ELSE <<cur>> \o FieldsFrom(s, i + 1, <<>>)
         ELSE FieldsFrom(s, i + 1, Append(cur, s[i]))

\* strings.Fields(s): the maximal runs of non-space characters of s.
Fields(s) == FieldsFrom(s, 1, <<>>)

RECURSIVE Join(_)
\* strings.Join(words, " ")
Join(words) ==
    IF words = <<>> THEN <<>>
    ELSE IF Len(words) = 1 THEN Head(words)
    ELSE Head(words) \o <<" ">> \o Join(Tail(words))

(***************************************************************************)
(* The values on the wire.                                                 *)
(***************************************************************************)
\* Game identifiers the global stream announces.
GameIds == {<<"g", "1">>, <<"g", "2">>}

\* botLichessUserID, and another player's id.
botLichessUserID == <<"b", "o", "t">>
OtherUserID == <<"o", "p", "p">>

\* A JSON field that is missing or not of the asserted type.
Absent == <<"\\", "a", "b", "s", "e", "n", "t">>

\* A JSON field that holds an object.
JsonMap == <<"{", "}">>

\* The moves of the line the remote games follow, in order.
MoveLine ==
    << <<"e", "2", "e", "4">>, <<"e", "7", "e", "5">>, <<"g", "1", "f", "3">>,
       <<"b", "8", "c", "6">> >>

\* The "moves" strings of the records: every prefix of the line, joined by
\* single spaces, and a string of white space only.
MovesStrs ==
    {Join(SubSeq(MoveLine, 1, n)) : n \in 0..MaxMoves} \cup {<<" ", " ">>}

White == <<"w", "h", "i", "t", "e">>
Black == <<"b", "l", "a", "c", "k">>
Random == <<"r", "a", "n", "d", "o", "m">>

\* http.StatusOK
StatusOK == 200

(***************************************************************************)
(* The oracle: getBestMoveFromLLM.                                         *)
(***************************************************************************)
\* A reply of the oracle with status 200 and a well-formed body.
OracleReply(apiError, choices) ==
    [doErr |-> FALSE, status |-> StatusOK, jsonOk |-> TRUE,
     apiError |-> apiError, choices |-> choices]

\* What one request to the oracle can come back with: doErr is a failure to
\* send the request or to read the body, apiError the message of the body's
\* "error" object ("" when there is none), choices the contents of the
\* body's choices.
OracleResponses ==
    { [doErr |-> TRUE, status |-> 0, jsonOk |-> FALSE,
       apiError |-> EmptyStr, choices |-> <<>>],
      [doErr |-> FALSE, status |-> 500, jsonOk |-> TRUE,
       apiError |-> EmptyStr, choices |-> <<>>],
      [doErr |-> FALSE, status |-> StatusOK, jsonOk |-> FALSE,
       apiError |-> EmptyStr, choices |-> <<>>],
      OracleReply(<<"r", "a", "t", "e", " ", "l", "i", "m", "i", "t", "e", "d">>,
                  << <<"e", "7", "e", "6">> >>),
      OracleReply(EmptyStr, <<>>),
      OracleReply(EmptyStr, <<EmptyStr>>),
      OracleReply(EmptyStr, << <<" ", " ">> >>),
      OracleReply(EmptyStr, << <<"a", "b", "c">> >>),
      OracleReply(EmptyStr, << <<"e", "7", " ", "e", "5">> >>),
      OracleReply(EmptyStr, << <<"e", "7", "e", "5", "e", "6">> >>),
      OracleReply(EmptyStr, << <<" ", "e", "7", "e", "5", "\n">> >>),
      OracleReply(EmptyStr, << <<"e", "7", "\f", "e", "5">> >>),
      OracleReply(EmptyStr, << <<"e", "7", "e", "6">>, <<"a", "b", "c">> >>) }

\* getBestMoveFromLLM's result for one response: the move and the error.
\* The move list and the feedback only shape the prompt.
getBestMoveFromLLM(resp) ==
    LET failure ==
            [move |-> EmptyStr,
             err |-> [nil |-> FALSE,
                      text |-> <<"L", "L", "M", " ", "e", "r", "r", "o", "r">>]]
    IN
    IF resp.doErr THEN failure
    ELSE IF resp.status # StatusOK THEN failure
    ELSE IF ~resp.jsonOk THEN failure
    ELSE IF resp.apiError # EmptyStr THEN failure
    ELSE IF Len(resp.choices) > 0 /\ resp.choices[1] # EmptyStr
         THEN LET move == TrimSpace(resp.choices[1]) IN
              IF (Len(move) >= 4 /\ Len(move) <= 5)
                 /\ ~ContainsAny(move, {" ", "\t", "\n", "\r"})
              THEN [move |-> move, err |-> [nil |-> TRUE, text |-> EmptyStr]]
              ELSE failure
         ELSE failure

(***************************************************************************)
(* The transport: makeMove, and the classification of its errors.          *)
(***************************************************************************)
\* A response to the move request: doErr (the request failed, with netErr
\* its text), or an HTTP status (statusText is resp.Status) with the raw
\* body, whether the body decodes as JSON, and the decoded "ok" and "error"
\* fields (Absent when the body has none of that type).
MoveResponse(status, statusText, body, jsonOk, okField, errorField) ==
    [doErr |-> FALSE, netErr |-> EmptyStr, status |-> status,
     statusText |-> statusText, body |-> body, jsonOk |-> jsonOk,
     okField |-> okField, errorField |-> errorField]

JsonTrue == <<"t", "r", "u", "e">>
JsonFalse == <<"f", "a", "l", "s", "e">>

Status200 == <<"2", "0", "0", " ", "O", "K">>
Status400 == <<"4", "0", "0", " ", "B", "a", "d", " ", "R", "e", "q", "u", "e", "s", "t">>
Status401 == <<"4", "0", "1", " ", "U", "n", "a", "u", "t", "h", "o", "r", "i", "z", "e", "d">>
Status502 == <<"5", "0", "2", " ", "B", "a", "d", " ", "G", "a", "t", "e", "w", "a", "y">>

TextIllegalMove == <<"I", "l", "l", "e", "g", "a", "l", " ", "m", "o", "v", "e">>
TextInvalidUci == <<"I", "N", "V", "A", "L", "I", "D", " ", "U", "C", "I">>
TextCannotMove ==
    <<"P", "i", "e", "c", "e", " ", "c", "a", "n", "n", "o", "t", " ", "m",
      "o", "v", "e", " ", "t", "o", " ", "e", "9">>
TextNotPossible ==
    <<"N", "o", "t", " ", "p", "o", "s", "s", "i", "b", "l", "e", " ", "t",
      "o", " ", "p", "l", "a", "y">>
TextMemberMove ==
    <<"M", "e", "m", "b", "e", "r", " ", "m", "o", "v", "e", " ", "n", "o",
      "t", " ", "f", "o", "u", "n", "d">>
TextNotYourTurn == <<"N", "o", "t", " ", "y", "o", "u", "r", " ", "t", "u", "r", "n">>
TextNoSuchGame == <<"N", "o", " ", "s", "u", "c", "h", " ", "g", "a", "m", "e">>
TextBadGateway == <<"B", "a", "d", " ", "G", "a", "t", "e", "w", "a", "y">>
TextTimeout == <<"t", "i", "m", "e", "o", "u", "t">>
TextOkFalse == <<"{", "\"", "o", "k", "\"", ":", "f", "a", "l", "s", "e", "}">>

\* The responses whose move request is accepted.
AcceptingResponses ==
    { MoveResponse(StatusOK, Status200, EmptyStr, TRUE, JsonTrue, Absent),
      MoveResponse(StatusOK, Status200, TextBadGateway, FALSE, Absent, Absent),
      MoveResponse(StatusOK, Status200, TextOkFalse, TRUE, JsonFalse, Absent) }

\* The responses that name the move as illegal, in the five vocabularies.
IllegalMoveResponses ==
    { MoveResponse(400, Status400, EmptyStr, TRUE, Absent, TextIllegalMove),
      MoveResponse(400, Status400, EmptyStr, TRUE, Absent, TextInvalidUci),
      MoveResponse(400, Status400, EmptyStr, TRUE, Absent, TextMemberMove),
      MoveResponse(400, Status400, TextNotPossible, FALSE, Absent, Absent),
      MoveResponse(StatusOK, Status200, EmptyStr, TRUE, JsonFalse, TextCannotMove) }

\* Every other failure: a request that fails, a refusal for another reason.
OtherFailureResponses ==
    { [doErr |-> TRUE, netErr |-> TextTimeout, status |-> 0,
       statusText |-> EmptyStr, body |-> EmptyStr, jsonOk |-> FALSE,
       okField |-> Absent, errorField |-> Absent],
      MoveResponse(400, Status400, EmptyStr, TRUE, Absent, TextNotYourTurn),
      MoveResponse(StatusOK, Status200, EmptyStr, TRUE, Absent, TextNoSuchGame),
      MoveResponse(401, Status401, TextOkFalse, TRUE, JsonFalse, Absent),
      MoveResponse(502, Status502, TextBadGateway, FALSE, Absent, Absent) }

MoveResponses ==
    AcceptingResponses \cup IllegalMoveResponses \cup OtherFailureResponses

NilError == [nil |-> TRUE, text |-> EmptyStr]
Errorf(parts) == [nil |-> FALSE, text |-> Concat(parts)]

\* makeMove(gameID, move): nil, or the error it returns, for one response.
makeMove(gameID, move, resp) ==
    IF resp.doErr
    THEN Errorf(<< <<"e", "r", "r", "o", "r", " ", "m", "a", "k", "i", "n", "g",
                     " ", "m", "o", "v", "e", " ">>, move,
                   <<" ", "f", "o", "r", " ", "g", "a", "m", "e", " ">>, gameID,
                   <<":", " ">>, resp.netErr >>)
    ELSE IF resp.status = StatusOK
    THEN IF ~resp.jsonOk THEN NilError
         ELSE IF resp.okField = JsonTrue THEN NilError
         ELSE IF resp.errorField # Absent
         THEN Errorf(<< <<"l", "i", "c", "h", "e", "s", "s", " ", "e", "r", "r",
                          "o", "r", " ", "o", "n", " ", "m", "o", "v", "e", " ">>,
                        move, <<":", " ">>, resp.errorField >>)
         ELSE NilError
    ELSE LET head ==
                 << <<"f", "a", "i", "l", "e", "d", " ", "t", "o", " ", "m", "a",
                      "k", "e", " ", "m", "o", "v", "e", " ">>, move,
                    <<" ", "f", "o", "r", " ", "g", "a", "m", "e", " ">>, gameID,
                    <<".", " ", "S", "t", "a", "t", "u", "s", ":", " ">>,
                    resp.statusText >>
         IN IF resp.jsonOk /\ resp.errorField # Absent /\ resp.errorField # EmptyStr
            THEN Errorf(head \o
                        << <<".", " ", "L", "i", "c", "h", "e", "s", "s", " ", "e",
                             "r", "r", "o", "r", ":", " ">>, resp.errorField >>)
            ELSE Errorf(head \o
                        << <<".", " ", "B", "o", "d", "y", ":", " ">>, resp.body >>)

\* The texts checkAndMakeMove takes for "the move was invalid".
IllegalityPhrases ==
    { <<"i", "l", "l", "e", "g", "a", "l", " ", "m", "o", "v", "e">>,
      <<"i", "n", "v", "a", "l", "i", "d", " ", "u", "c", "i">>,
      <<"m", "e", "m", "b", "e", "r", " ", "m", "o", "v", "e", " ", "n", "o",
        "t", " ", "f", "o", "u", "n", "d">>,
      <<"n", "o", "t", " ", "p", "o", "s", "s", "i", "b", "l", "e", " ", "t",
        "o", " ", "p", "l", "a", "y">>,
      <<"c", "a", "n", "n", "o", "t", " ", "m", "o", "v", "e", " ", "t", "o">> }

\* A variant that takes every error text that speaks of a move.
IsInvalidMoveErrorLoose(text) == Contains(ToLower(text), <<"m", "o", "v", "e">>)

\* The condition of checkAndMakeMove's retry branch on err.Error().
IsInvalidMoveError(text) ==
    \E phrase \in IllegalityPhrases : Contains(ToLower(text), phrase)

\* The attempts of the retry loop: for attempt := 0; attempt < 3; attempt++
MaxAttempts == 3

\* isGameOver(status)
TerminalStatuses ==
    { <<"m", "a", "t", "e">>, <<"r", "e", "s", "i", "g", "n">>,
      <<"s", "t", "a", "l", "e", "m", "a", "t", "e">>,
      <<"t", "i", "m", "e", "o", "u", "t">>, <<"d", "r", "a", "w">>,
      <<"o", "u", "t", "o", "f", "t", "i", "m", "e">>,
      <<"c", "h", "e", "a", "t">>, <<"a", "b", "o", "r", "t", "e", "d">>,
      <<"v", "a", "r", "i", "a", "n", "t", "E", "n", "d">>,
      <<"n", "o", "S", "t", "a", "r", "t">> }

isGameOver(status) == status \in TerminalStatuses

\* The statuses of a game that goes on, and a record without a status.
OngoingStatuses ==
    { <<"s", "t", "a", "r", "t", "e", "d">>, <<"c", "r", "e", "a", "t", "e", "d">>,
      EmptyStr }

\* A variant with another first move.
OpeningMoveE2E4 == <<"e", "2", "e", "4">>

\* The fixed first move of checkAndMakeMove.
OpeningMove == <<"d", "2", "d", "4">>

(***************************************************************************)
(* The configuration: LoadConfig and loadEnvFromFileToSystem.              *)
(***************************************************************************)
defaultPortCfg == <<"8", "0", "8", "0">>

LICHESS_TOKEN ==
    <<"L", "I", "C", "H", "E", "S", "S", "_", "T", "O", "K", "E", "N">>
OPENROUTER_API_KEY ==
    <<"O", "P", "E", "N", "R", "O", "U", "T", "E", "R", "_", "A", "P", "I",
      "_", "K", "E", "Y">>
PORT == <<"P", "O", "R", "T">>
ConfigKeys == {LICHESS_TOKEN, OPENROUTER_API_KEY, PORT}

\* The process environment is a function from the names that are set to
\* their values. os.Getenv gives "" for a name that is not set.
Getenv(env, key) == IF key \in DOMAIN env THEN env[key] ELSE EmptyStr

\* os.Setenv(key, value)
Setenv(env, key, value) ==
    [k \in DOMAIN env \cup {key} |-> IF k = key THEN value ELSE env[k]]

\* strings.HasPrefix(s, prefix)
HasPrefix(s, prefix) ==
    Len(s) >= Len(prefix) /\ SubSeq(s, 1, Len(prefix)) = prefix

\* strings.SplitN(line, "=", 2): the line when it has no "=", else what is
\* before the first "=" and what is after it.
SplitN2(line) ==
    IF \A i \in DOMAIN line : line[i] # "="
    THEN <<line>>
    ELSE LET i == CHOOSE j \in DOMAIN line :
                      /\ line[j] = "="
                      /\ \A h \in 1..(j - 1) : line[h] # "="
         IN <<SubSeq(line, 1, i - 1), SubSeq(line, i + 1, Len(line))>>

\* The value with one pair of surrounding double or single quotes removed.
Unquote(value) ==
    IF Len(value) >= 2
       /\ \/ value[1] = "\"" /\ value[Len(value)] = "\""
          \/ value[1] = "'" /\ value[Len(value)] = "'"
    THEN SubSeq(value, 2, Len(value) - 1)
    ELSE value

\* The body of the scan loop for one line of the file: the environment
\* after it.
SetFromLine(env, text) ==
    LET line == TrimSpace(text)
        parts == SplitN2(line)
    IN IF line = EmptyStr \/ HasPrefix(line, <<"#">>) THEN env
       ELSE IF Len(parts) # 2 THEN env
       ELSE LET key == TrimSpace(parts[1])
                value == Unquote(TrimSpace(parts[2]))
            IN IF key = EmptyStr THEN env ELSE Setenv(env, key, value)

RECURSIVE SetFromLinesUntilMalformed(_, _)
\* A variant that stops reading at the first line that sets nothing.
SetFromLinesUntilMalformed(env, lines) ==
    IF lines = <<>> THEN env
    ELSE LET line == TrimSpace(Head(lines))
             parts == SplitN2(line)
         IN IF line = EmptyStr \/ HasPrefix(line, <<"#">>) \/ Len(parts) # 2
               \/ TrimSpace(parts[1]) = EmptyStr
            THEN env
            ELSE SetFromLinesUntilMalformed(SetFromLine(env, Head(lines)),
                                            Tail(lines))

RECURSIVE SetFromLines(_, _)
\* The scan loop: the lines of the file from the first to the last.
SetFromLines(env, lines) ==
    IF lines = <<>> THEN env
    ELSE SetFromLines(SetFromLine(env, Head(lines)), Tail(lines))

\* A file is there or not (os.Open fails), and has lines when it is there.
\* loadEnvFromFileToSystem(".env"): the environment after it.
loadEnvFromFileToSystem(env, file) ==
    IF ~file.exists THEN env ELSE SetFromLines(env, file.lines)

NilConfig ==
    [nil |-> TRUE, LichessToken |-> EmptyStr, OpenRouterAPIKey |-> EmptyStr,
     Port |-> EmptyStr]
BotConfig(token, key, port) ==
    [nil |-> FALSE, LichessToken |-> token, OpenRouterAPIKey |-> key,
     Port |-> port]

NotSet ==
    <<" ", "e", "n", "v", "i", "r", "o", "n", "m", "e", "n", "t", " ", "v",
      "a", "r", "i", "a", "b", "l", "e", " ", "n", "o", "t", " ", "s", "e",
      "t">>

\* A variant that loads the file first, whatever the environment holds.
LoadConfigFileFirst(env, file) ==
    LET after == loadEnvFromFileToSystem(env, file)
        token == Getenv(after, LICHESS_TOKEN)
        key == Getenv(after, OPENROUTER_API_KEY)
        port == Getenv(after, PORT)
    IN IF token = EmptyStr
       THEN [cfg |-> NilConfig, err |-> Errorf(<<LICHESS_TOKEN, NotSet>>),
             environ |-> after]
       ELSE IF key = EmptyStr
       THEN [cfg |-> NilConfig, err |-> Errorf(<<OPENROUTER_API_KEY, NotSet>>),
             environ |-> after]
       ELSE [cfg |-> BotConfig(token, key,
                               IF port = EmptyStr THEN defaultPortCfg ELSE port),
             err |-> NilError, environ |-> after]

\* A variant that tests OPENROUTER_API_KEY before LICHESS_TOKEN.
LoadConfigKeyFirst(env, file) ==
    LET token0 == Getenv(env, LICHESS_TOKEN)
        key0 == Getenv(env, OPENROUTER_API_KEY)
        port0 == Getenv(env, PORT)
        missing == token0 = EmptyStr \/ key0 = EmptyStr \/ port0 = EmptyStr
        after == IF missing THEN loadEnvFromFileToSystem(env, file) ELSE env
        token == IF token0 = EmptyStr THEN Getenv(after, LICHESS_TOKEN)
                 ELSE token0
        key == IF key0 = EmptyStr THEN Getenv(after, OPENROUTER_API_KEY)
               ELSE key0
        port == IF port0 = EmptyStr THEN Getenv(after, PORT) ELSE port0
    IN IF key = EmptyStr
       THEN [cfg |-> NilConfig, err |-> Errorf(<<OPENROUTER_API_KEY, NotSet>>),
             environ |-> after]
       ELSE IF token = EmptyStr
       THEN [cfg |-> NilConfig, err |-> Errorf(<<LICHESS_TOKEN, NotSet>>),
             environ |-> after]
       ELSE [cfg |-> BotConfig(token, key,
                               IF port = EmptyStr THEN defaultPortCfg ELSE port),
             err |-> NilError, environ |-> after]

\* A variant that leaves the port empty when none is set.
LoadConfigNoDefault(env, file) ==
    LET token0 == Getenv(env, LICHESS_TOKEN)
        key0 == Getenv(env, OPENROUTER_API_KEY)
        port0 == Getenv(env, PORT)
        missing == token0 = EmptyStr \/ key0 = EmptyStr \/ port0 = EmptyStr
        after == IF missing THEN loadEnvFromFileToSystem(env, file) ELSE env
        token == IF token0 = EmptyStr THEN Getenv(after, LICHESS_TOKEN)
                 ELSE token0
        key == IF key0 = EmptyStr THEN Getenv(after, OPENROUTER_API_KEY)
               ELSE key0
        port == IF port0 = EmptyStr THEN Getenv(after, PORT) ELSE port0
    IN IF token = EmptyStr
       THEN [cfg |-> NilConfig, err |-> Errorf(<<LICHESS_TOKEN, NotSet>>),
             environ |-> after]
       ELSE IF key = EmptyStr
       THEN [cfg |-> NilConfig, err |-> Errorf(<<OPENROUTER_API_KEY, NotSet>>),
             environ |-> after]
       ELSE [cfg |-> BotConfig(token, key, port),
             err |-> NilError, environ |-> after]

\* LoadConfig() in the environment env with the file .env: the
\* configuration, the error, and the environment it leaves. The three
\* values are read from the environment; when one of them is empty the
\* file is loaded into the environment and the empty ones are read again;
\* then the two required values are tested and the port gets its default.
LoadConfig(env, file) ==
    LET token0 == Getenv(env, LICHESS_TOKEN)
        key0 == Getenv(env, OPENROUTER_API_KEY)
        port0 == Getenv(env, PORT)
        missing == token0 = EmptyStr \/ key0 = EmptyStr \/ port0 = EmptyStr
        after == IF missing THEN loadEnvFromFileToSystem(env, file) ELSE env
        token == IF token0 = EmptyStr THEN Getenv(after, LICHESS_TOKEN)
                 ELSE token0
        key == IF key0 = EmptyStr THEN Getenv(after, OPENROUTER_API_KEY)
               ELSE key0
        port == IF port0 = EmptyStr THEN Getenv(after, PORT) ELSE port0
    IN IF token = EmptyStr
       THEN [cfg |-> NilConfig, err |-> Errorf(<<LICHESS_TOKEN, NotSet>>),
             environ |-> after]
       ELSE IF key = EmptyStr
       THEN [cfg |-> NilConfig, err |-> Errorf(<<OPENROUTER_API_KEY, NotSet>>),
             environ |-> after]
       ELSE [cfg |-> BotConfig(token, key,
                               IF port = EmptyStr THEN defaultPortCfg ELSE port),
             err |-> NilError, environ |-> after]

\* The environments a call starts in: each of the three names is not set,
\* set to "", or set to a value of its own.
EnvValueOf(key) ==
    IF key = LICHESS_TOKEN THEN <<"e", "t">>
    ELSE IF key = OPENROUTER_API_KEY THEN <<"e", "k">>
    ELSE <<"3", "0", "0", "0">>
Environs ==
    { [k \in S |-> IF k \in E THEN EmptyStr ELSE EnvValueOf(k)] :
        S \in SUBSET ConfigKeys, E \in SUBSET ConfigKeys }

\* The lines a .env file is made of, and the files of up to MaxFileLines
\* lines; no file at all is one more.
MaxFileLines == 2
FileLines ==
    { <<"L", "I", "C", "H", "E", "S", "S", "_", "T", "O", "K", "E", "N", "=", "f", "t">>,
      <<"O", "P", "E", "N", "R", "O", "U", "T", "E", "R", "_", "A", "P", "I", "_", "K", "E", "Y", "=", "'", "f", "k", "'">>,
      <<" ", "P", "O", "R", "T", " ", "=", " ", "\"", "9", "0", "9", "0", "\"", " ">>,
      <<"P", "O", "R", "T", "=">>,
      <<"P", "O", "R", "T", "=", "\"", "9", "0", "'">>,
      <<"P", "O", "R", "T", "=", "'", "8", "0">>,
      <<"#", " ", "P", "O", "R", "T", "=", "1">>,
      <<"P", "O", "R", "T">>,
      <<"=", "x">>,
      EmptyStr }
Files ==
    { [exists |-> FALSE, lines |-> <<>>] }
    \cup { [exists |-> TRUE, lines |-> l] :
             l \in UNION { [1..n -> FileLines] : n \in 0..MaxFileLines } }

(***************************************************************************)
(* The state.                                                              *)
(***************************************************************************)
VARIABLES
    dpc,                \* where the dispatcher (streamLichessEvents) stands:
                        \* at, and in a sleep the failure and its seconds
    answered,           \* the last challenge record handled and the call made
    older,              \* the earlier dispatcher instances that have not
                        \* returned yet
    activeGames,        \* the registry: game id -> the worker whose Game it holds
    activeGamesMutex,   \* who holds the registry lock, or "free"
    fatal,              \* the process died (a panic or a runtime fatal error)
    pc,                 \* where each streamGameEvents goroutine stands
    gameID,             \* its gameID argument
    Color,              \* game.Color
    Moves,              \* game.Moves
    opponentGone,       \* game.opponentGone
    doneCh,             \* game.doneCh: "open" or "closed"
    closes,             \* how many times close(game.doneCh) ran
    removes,            \* how many entries the goroutine's deferred delete removed
    exitWhy,            \* the return statement the goroutine left by
    movesStr,           \* the "moves" field of the record being handled
    eventData,          \* the record the read loop handled last
    environ,            \* the process environment
    environ0,           \* the process environment LoadConfig was called in
    dotEnv,             \* the file .env
    cfg,                \* the *BotConfig LoadConfig returned
    err,                \* the error LoadConfig returned
    loaded,             \* loadEnvFromFileToSystem was called, and returned
    mu,                 \* game.mu
    currentMovesForLLM, \* checkAndMakeMove's copy of game.Moves
    gameColorForLogic,  \* checkAndMakeMove's copy of game.Color
    nextMove,           \* checkAndMakeMove's nextMove
    lastOracle,         \* what the last oracle query of the turn came back with
    lastReply,          \* what the last makeMove of the turn came back with
    attempt,            \* the retry loop's counter
    llmCalls,           \* calls of getBestMoveFromLLM in the current turn
    moveCalls,          \* calls of makeMove in the current turn
    outcome,            \* how the current turn ended, "" while it runs
    llmQuery            \* the arguments of the turn's last query of the oracle

registryVars == <<activeGames, activeGamesMutex>>
gameVars == <<Color, Moves, mu, opponentGone, doneCh, closes>>
turnVars ==
    <<currentMovesForLLM, gameColorForLogic, nextMove, lastOracle, lastReply,
      attempt, llmCalls, moveCalls, outcome, llmQuery>>
dispatcherVars == <<dpc, answered, older>>
configVars == <<environ, environ0, dotEnv, cfg, err, loaded>>
vars ==
    <<environ, environ0, dotEnv, cfg, err, loaded,
      dpc, answered, older, movesStr, eventData, mu, activeGames, activeGamesMutex,
      fatal, pc, gameID, Color, Moves,
      opponentGone, doneCh, closes, removes, exitWhy, currentMovesForLLM,
      gameColorForLogic, nextMove, lastOracle, lastReply, attempt, llmCalls,
      moveCalls, outcome, llmQuery>>

NoWorker == "none"
Free == "free"

\* The goroutine that serves a request to /health, as a holder of the lock.
HealthHandler == "health"

(***************************************************************************)
(* Challenges.                                                             *)
(***************************************************************************)
Standard == <<"s", "t", "a", "n", "d", "a", "r", "d">>
Chess960 == <<"c", "h", "e", "s", "s", "9", "6", "0">>
Created == <<"c", "r", "e", "a", "t", "e", "d">>
Canceled == <<"c", "a", "n", "c", "e", "l", "e", "d">>
ChallengeId == <<"c", "1">>

\* The "challenge" object of a challenge line: its id and status, whether
\* "variant" is an object and its "key", whether "challenger" is an object and
\* its "bot" and "id".
Challenge(id, status, variant, key, challenger, bot, challengerID) ==
    [id |-> id, status |-> status, variant |-> variant, key |-> key,
     challenger |-> challenger, bot |-> bot, challengerID |-> challengerID]

ChallengeVariants ==
    { <<FALSE, Absent>>, <<TRUE, Absent>>, <<TRUE, Standard>>,
      <<TRUE, Chess960>> }

ChallengeChallengers ==
    { <<FALSE, Absent, Absent>>,
      <<TRUE, Absent, OtherUserID>>,
      <<TRUE, JsonTrue, OtherUserID>>,
      <<TRUE, JsonFalse, OtherUserID>>,
      <<TRUE, Absent, botLichessUserID>>,
      <<TRUE, Absent, Absent>> }

\* The challenge objects the event stream delivers.
Challenges ==
    { Challenge(ChallengeId, Created, v[1], v[2], c[1], c[2], c[3]) :
         v \in ChallengeVariants, c \in ChallengeChallengers }
    \cup
    { Challenge(ChallengeId, Canceled, TRUE, Standard, TRUE, Absent, OtherUserID),
      Challenge(ChallengeId, Absent, TRUE, Standard, TRUE, Absent, OtherUserID),
      Challenge(Absent, Created, TRUE, Standard, TRUE, Absent, OtherUserID) }

\* go acceptChallenge(id) and go declineChallenge(id, reason).
AcceptCall == [call |-> "accept", reason |-> ""]
DeclineCall(reason) == [call |-> "decline", reason |-> reason]

\* A variant without the continue after the first decline: the challenger
\* is looked at for every created challenge.
ChallengeCallsWithoutContinue(c) ==
    LET idOk == c.id # Absent
        statusOk == c.status # Absent
        variantOk == c.variant
        keyOk == c.variant /\ c.key # Absent
        challengerOk == c.challenger
        isBot == c.bot \in {JsonTrue, JsonFalse}
        challengerID == IF c.challengerID = Absent THEN EmptyStr
                        ELSE c.challengerID
    IN  IF ~(idOk /\ statusOk /\ c.status = Created)
        THEN <<>>
        ELSE (IF ~variantOk \/ ~keyOk \/ c.key # Standard
              THEN <<DeclineCall("standardOnly")>> ELSE <<>>)
             \o (IF challengerOk /\ (isBot \/ challengerID = botLichessUserID)
                 THEN <<DeclineCall("noBot")>>
                 ELSE <<AcceptCall>>)

\* The calls that the challenge case makes for a challenge object, in the
\* order of the go statements it runs.
ChallengeCalls(c) ==
    LET idOk == c.id # Absent
        statusOk == c.status # Absent
        variantOk == c.variant
        keyOk == c.variant /\ c.key # Absent
        challengerOk == c.challenger
        isBot == c.bot \in {JsonTrue, JsonFalse}
        challengerID == IF c.challengerID = Absent THEN EmptyStr
                        ELSE c.challengerID
    IN  IF ~(idOk /\ statusOk /\ c.status = Created)
        THEN <<>>
        ELSE IF ~variantOk \/ ~keyOk \/ c.key # Standard
        THEN <<DeclineCall("standardOnly")>>
        ELSE IF challengerOk /\ (isBot \/ challengerID = botLichessUserID)
        THEN <<DeclineCall("noBot")>>
        ELSE <<AcceptCall>>

\* The challenge case for a challenge object: the calls made, and the
\* first of them, if any.
AnswerTo(c) ==
    LET calls == ChallengeCalls(c) IN
    [challenge |-> c,
     call |-> IF calls = <<>> THEN "none" ELSE calls[1].call,
     reason |-> IF calls = <<>> THEN "" ELSE calls[1].reason,
     calls |-> calls]

\* No challenge handled yet.
NoAnswer ==
    [challenge |-> Challenge(Absent, Absent, FALSE, Absent, FALSE, Absent, Absent),
     call |-> "none", reason |-> "", calls |-> <<>>]

\* time.Sleep(15 * time.Second) after a failure to connect.
ConnectRetryDelay == 15

\* time.Sleep(5 * time.Second) after the end of the stream.
StreamRestartDelay == 5

\* The dispatcher about to connect, reading lines, and asleep after a failure.
Connecting == [at |-> "connect", why |-> "", seconds |-> 0]
Scanning == [at |-> "scan", why |-> "", seconds |-> 0]
Sleeping(why, seconds) == [at |-> "sleep", why |-> why, seconds |-> seconds]

\* No query made, and a query with its two arguments.
NoQuery == [made |-> FALSE, moves |-> <<>>, feedback |-> EmptyStr]
Query(moves, feedback) == [made |-> TRUE, moves |-> moves, feedback |-> feedback]

\* No record handled yet.
NoEvent == [type |-> "none"]

\* A sync.Mutex is unlocked or locked. Lock on a locked mutex blocks for
\* good; Unlock of an unlocked mutex is a fatal error of the runtime.
Unlocked == "unlocked"
Locked == "locked"
Lock(m) == IF m = Unlocked THEN Locked ELSE "blocked"
Unlock(m) == IF m = Locked THEN Unlocked ELSE "unlock of unlocked mutex"

\* The bot after main's start-up: no game yet.
BotInit ==
    /\ dpc = Connecting
    /\ answered = NoAnswer
    /\ older = <<>>
    /\ movesStr = [w \in Workers |-> Absent]
    /\ eventData = [w \in Workers |-> NoEvent]
    /\ mu = [w \in Workers |-> Unlocked]
    /\ activeGames = [g \in GameIds |-> NoWorker]
    /\ activeGamesMutex = Free
    /\ fatal = FALSE
    /\ pc = [w \in Workers |-> "idle"]
    /\ gameID = [w \in Workers |-> EmptyStr]
    /\ Color = [w \in Workers |-> EmptyStr]
    /\ Moves = [w \in Workers |-> <<>>]
    /\ opponentGone = [w \in Workers |-> FALSE]
    /\ doneCh = [w \in Workers |-> "open"]
    /\ closes = [w \in Workers |-> 0]
    /\ removes = [w \in Workers |-> 0]
    /\ exitWhy = [w \in Workers |-> ""]
    /\ currentMovesForLLM = [w \in Workers |-> <<>>]
    /\ gameColorForLogic = [w \in Workers |-> EmptyStr]
    /\ nextMove = [w \in Workers |-> EmptyStr]
    /\ lastOracle = [w \in Workers |-> ""]
    /\ lastReply = [w \in Workers |-> ""]
    /\ attempt = [w \in Workers |-> 0]
    /\ llmCalls = [w \in Workers |-> 0]
    /\ moveCalls = [w \in Workers |-> 0]
    /\ outcome = [w \in Workers |-> ""]
    /\ llmQuery = [w \in Workers |-> NoQuery]

\* LoadConfig has not been called.
Init ==
    /\ BotInit
    /\ environ = [k \in ConfigKeys |-> EnvValueOf(k)]
    /\ environ0 = environ
    /\ dotEnv = [exists |-> FALSE, lines |-> <<>>]
    /\ cfg = NilConfig
    /\ err = NilError
    /\ loaded = FALSE

(***************************************************************************)
(* The dispatcher: streamLichessEvents.                                    *)
(***************************************************************************)
\* streamingHttpClient.Do and the status test: a failure to connect or a
\* non-OK status sleeps 15 seconds, a connection goes on to read.
DConnect ==
    /\ ~fatal
    /\ UNCHANGED configVars
    /\ dpc.at = "connect"
    /\ \E result \in {"error", "nonOK", "ok"} :
          dpc' = IF result = "ok" THEN Scanning
                 ELSE Sleeping(result, ConnectRetryDelay)
    /\ UNCHANGED <<answered, older, registryVars, fatal, pc, gameID, gameVars, removes,
                   movesStr, eventData, exitWhy,
                   turnVars>>

\* The goroutine slots that hold no running goroutine.
FreeSlots == {w \in Workers : pc[w] \in {"idle", "exited"}}

\* go streamGameEvents(gameID): a new goroutine, with the Game it will build.
Spawn(w, g) ==
    /\ pc' = [pc EXCEPT ![w] = "lock"]
    /\ gameID' = [gameID EXCEPT ![w] = g]
    /\ Color' = [Color EXCEPT ![w] = EmptyStr]
    /\ Moves' = [Moves EXCEPT ![w] = <<>>]
    /\ mu' = [mu EXCEPT ![w] = Unlocked]
    /\ opponentGone' = [opponentGone EXCEPT ![w] = FALSE]
    /\ doneCh' = [doneCh EXCEPT ![w] = "open"]
    /\ closes' = [closes EXCEPT ![w] = 0]
    /\ removes' = [removes EXCEPT ![w] = 0]
    /\ exitWhy' = [exitWhy EXCEPT ![w] = ""]
    /\ movesStr' = [movesStr EXCEPT ![w] = Absent]
    /\ eventData' = [eventData EXCEPT ![w] = NoEvent]

\* A gameStart record with a game id, one of ids: the worker goroutine is
\* started.
DGameStart(ids) ==
    /\ ~fatal
    /\ UNCHANGED configVars
    /\ dpc.at = "scan"
    /\ FreeSlots # {}
    /\ \E g \in ids : Spawn(CHOOSE w \in FreeSlots : TRUE, g)
    /\ UNCHANGED <<dispatcherVars, registryVars, fatal, turnVars>>

\* A challenge line with a challenge object, one of challenges: the call
\* is made in a goroutine of its own, which touches no state of the games.
DChallenge(challenges) ==
    /\ ~fatal
    /\ UNCHANGED configVars
    /\ dpc.at = "scan"
    /\ \E c \in challenges : answered' = AnswerTo(c)
    /\ UNCHANGED <<dpc, older, registryVars, fatal, pc, gameID, gameVars, removes,
                   movesStr, eventData, exitWhy, turnVars>>

\* Every other line: a keep-alive, a line that is not JSON or has no string
\* type, a gameStart without game data or id, a challenge line without a
\* challenge object, another type.
DOtherLine ==
    /\ ~fatal
    /\ UNCHANGED configVars
    /\ dpc.at = "scan"
    /\ \E kind \in {"blank", "notJSON", "noType", "gameStartNoGame",
                    "gameStartNoId", "challengeNoData", "other"} :
          UNCHANGED vars

\* A variant that sleeps after the end of the stream as long as after a
\* failure to connect.
DScanEndLongSleep ==
    /\ ~fatal
    /\ UNCHANGED configVars
    /\ dpc.at = "scan"
    /\ \E result \in {"readError", "closed"} :
          dpc' = Sleeping(result, ConnectRetryDelay)
    /\ UNCHANGED <<answered, older, registryVars, fatal, pc, gameID, gameVars, removes,
                   movesStr, eventData, exitWhy,
                   turnVars>>

\* scanner.Scan() returns false, on a read error or at the end of the stream.
DScanEnd ==
    /\ ~fatal
    /\ UNCHANGED configVars
    /\ dpc.at = "scan"
    /\ \E result \in {"readError", "closed"} :
          dpc' = Sleeping(result, StreamRestartDelay)
    /\ UNCHANGED <<answered, older, registryVars, fatal, pc, gameID, gameVars, removes,
                   movesStr, eventData, exitWhy,
                   turnVars>>

\* A variant that starts no new instance after a failure to connect.
DRestartAfterStreamEnd ==
    /\ ~fatal
    /\ UNCHANGED configVars
    /\ dpc.at = "sleep"
    /\ dpc.why \in {"readError", "closed"}
    /\ dpc' = Connecting
    /\ UNCHANGED <<answered, older, registryVars, fatal, pc, gameID, gameVars, removes,
                   movesStr, eventData, exitWhy,
                   turnVars>>

\* After the sleep: go streamLichessEvents(), and this instance returns.
DRestart ==
    /\ ~fatal
    /\ UNCHANGED configVars
    /\ dpc.at = "sleep"
    /\ dpc' = Connecting
    /\ UNCHANGED <<answered, older, registryVars, fatal, pc, gameID, gameVars, removes,
                   movesStr, eventData, exitWhy,
                   turnVars>>

\* An instance that has started its successor and has not returned yet: it
\* stands at its return statement; its response body is open when it had
\* connected, and is closed by the deferred resp.Body.Close() as it returns.
Returning(why) ==
    [at |-> "return", body |-> IF why = "error" THEN "none" ELSE "open"]

\* The earlier instances the model keeps apart.
MaxOlder == 2

\* seq without its i-th element.
Without(seq, i) == SubSeq(seq, 1, i - 1) \o SubSeq(seq, i + 1, Len(seq))

\* A variant with the go statement inside the read loop: the instance that
\* starts its successor goes on reading.
DGoWhileReading ==
    /\ ~fatal
    /\ UNCHANGED configVars
    /\ dpc.at \in {"scan", "sleep"}
    /\ Len(older) < MaxOlder
    /\ older' = Append(older, IF dpc.at = "scan"
                              THEN [at |-> "scan", body |-> "open"]
                              ELSE Returning(dpc.why))
    /\ dpc' = Connecting
    /\ UNCHANGED <<answered, registryVars, fatal, pc, gameID, gameVars, removes,
                   movesStr, eventData, exitWhy, turnVars>>

\* After the sleep: go streamLichessEvents(). The new instance is about to
\* connect; the one that started it has its return still to run.
DGo ==
    /\ ~fatal
    /\ UNCHANGED configVars
    /\ dpc.at = "sleep"
    /\ Len(older) < MaxOlder
    /\ older' = Append(older, Returning(dpc.why))
    /\ dpc' = Connecting
    /\ UNCHANGED <<answered, registryVars, fatal, pc, gameID, gameVars, removes,
                   movesStr, eventData, exitWhy, turnVars>>

\* An earlier instance returns: its deferred resp.Body.Close() runs and the
\* goroutine ends.
DReturn ==
    /\ ~fatal
    /\ UNCHANGED configVars
    /\ \E i \in 1..Len(older) :
          /\ older[i].at = "return"
          /\ older' = Without(older, i)
    /\ UNCHANGED <<dpc, answered, registryVars, fatal, pc, gameID, gameVars,
                   removes, movesStr, eventData, exitWhy, turnVars>>

(***************************************************************************)
(* A worker: streamGameEvents(gameID).                                     *)
(***************************************************************************)
\* A variant that does not wait for the lock.
LockRegistryNoWait(w, from, to) ==
    /\ ~fatal
    /\ UNCHANGED configVars
    /\ pc[w] = from
    /\ activeGamesMutex' = w
    /\ pc' = [pc EXCEPT ![w] = to]
    /\ UNCHANGED <<dispatcherVars, activeGames, fatal, gameID, gameVars,
                   removes, movesStr, eventData, exitWhy,
                   turnVars>>

\* activeGamesMutex.Lock(), on entry and in the deferred function.
LockRegistry(w, from, to) ==
    /\ ~fatal
    /\ UNCHANGED configVars
    /\ pc[w] = from
    /\ activeGamesMutex = Free
    /\ activeGamesMutex' = w
    /\ pc' = [pc EXCEPT ![w] = to]
    /\ UNCHANGED <<dispatcherVars, activeGames, fatal, gameID, gameVars,
                   removes, movesStr, eventData, exitWhy,
                   turnVars>>

SgeLock(w) == LockRegistry(w, "lock", "check")

\* A variant that sets up the deferred removal before the test.
SgeDuplicateDeferred(w) ==
    /\ ~fatal
    /\ UNCHANGED configVars
    /\ pc[w] = "check"
    /\ activeGames[gameID[w]] # NoWorker
    /\ activeGamesMutex' = Free
    /\ pc' = [pc EXCEPT ![w] = "deferred"]
    /\ exitWhy' = [exitWhy EXCEPT ![w] = "duplicate"]
    /\ UNCHANGED <<dispatcherVars, activeGames, fatal, gameID, gameVars,
                   removes, movesStr, eventData, turnVars>>

\* The game is in the registry already: unlock and return, before the
\* deferred removal is set up.
SgeDuplicate(w) ==
    /\ ~fatal
    /\ UNCHANGED configVars
    /\ pc[w] = "check"
    /\ activeGames[gameID[w]] # NoWorker
    /\ activeGamesMutex' = Free
    /\ pc' = [pc EXCEPT ![w] = "exited"]
    /\ exitWhy' = [exitWhy EXCEPT ![w] = "duplicate"]
    /\ UNCHANGED <<dispatcherVars, activeGames, fatal, gameID, gameVars,
                   removes, movesStr, eventData, turnVars>>

\* The game is not in the registry: go on to the insert.
SgeNotFound(w) ==
    /\ ~fatal
    /\ UNCHANGED configVars
    /\ pc[w] = "check"
    /\ activeGames[gameID[w]] = NoWorker
    /\ pc' = [pc EXCEPT ![w] = "insert"]
    /\ UNCHANGED <<dispatcherVars, registryVars, fatal, gameID, gameVars,
                   removes, movesStr, eventData, exitWhy,
                   turnVars>>

\* A variant that inserts and keeps the registry lock.
SgeRegisterKeepsLock(w) ==
    /\ ~fatal
    /\ UNCHANGED configVars
    /\ pc[w] = "insert"
    /\ activeGames' = [activeGames EXCEPT ![gameID[w]] = w]
    /\ pc' = [pc EXCEPT ![w] = "connect"]
    /\ UNCHANGED <<dispatcherVars, activeGamesMutex, fatal, gameID, gameVars,
                   removes, movesStr, eventData, exitWhy, turnVars>>

\* Insert the new Game and unlock.
SgeRegister(w) ==
    /\ ~fatal
    /\ UNCHANGED configVars
    /\ pc[w] = "insert"
    /\ activeGames' = [activeGames EXCEPT ![gameID[w]] = w]
    /\ activeGamesMutex' = Free
    /\ pc' = [pc EXCEPT ![w] = "connect"]
    /\ UNCHANGED <<dispatcherVars, fatal, gameID, gameVars, removes, movesStr,
                   eventData,
                   exitWhy, turnVars>>

\* A return statement after the defer: the deferred function runs next.
Return(w, why) ==
    /\ pc' = [pc EXCEPT ![w] = "deferred"]
    /\ exitWhy' = [exitWhy EXCEPT ![w] = why]

\* A variant whose failure paths skip the deferred function.
SgeConnectNoDefer(w) ==
    /\ ~fatal
    /\ UNCHANGED configVars
    /\ pc[w] = "connect"
    /\ \E result \in {"error", "nonOK", "ok"} :
          IF result = "ok"
          THEN pc' = [pc EXCEPT ![w] = "select"] /\ UNCHANGED exitWhy
          ELSE /\ pc' = [pc EXCEPT ![w] = "exited"]
               /\ exitWhy' = [exitWhy EXCEPT ![w] = result]
    /\ UNCHANGED <<dispatcherVars, registryVars, fatal, gameID, gameVars,
                   removes, movesStr, eventData, turnVars>>

\* streamingHttpClient.Do and the status test of the game stream: on a
\* failure the goroutine returns, without a retry.
SgeConnect(w) ==
    /\ ~fatal
    /\ UNCHANGED configVars
    /\ pc[w] = "connect"
    /\ \E result \in {"error", "nonOK", "ok"} :
          IF result = "ok"
          THEN pc' = [pc EXCEPT ![w] = "select"] /\ UNCHANGED exitWhy
          ELSE Return(w, result)
    /\ UNCHANGED <<dispatcherVars, registryVars, fatal, gameID, gameVars,
                   removes, movesStr, eventData, turnVars>>

\* close(game.doneCh); closing a closed channel panics.
Close(w) ==
    /\ closes' = [closes EXCEPT ![w] = @ + 1]
    /\ doneCh' = [doneCh EXCEPT ![w] = "closed"]
    /\ fatal' = (doneCh[w] = "closed")

\* The goroutines that are writing the registry map: they hold the lock and
\* stand before their insert or their delete.
RegistryWriters ==
    {v \in Workers :
        /\ activeGamesMutex = v
        /\ \/ pc[v] = "delete"
           \/ pc[v] = "insert"}

\* What activeGames[gameID] == game can evaluate to at the end of the
\* stream. The map is read without the registry lock: while another
\* goroutine writes the map the read can give either answer.
MembershipReads(w) ==
    IF RegistryWriters \ {w} = {} THEN {activeGames[gameID[w]] = w}
    ELSE BOOLEAN

\* After the scan failed: mark the opponent as gone when the game is still
\* registered, close doneCh, return.
ScanEnd(w) ==
    \/ /\ \E mine \in (IF opponentGone[w] THEN {FALSE} ELSE MembershipReads(w)) :
             opponentGone' =
                 [opponentGone EXCEPT ![w] = IF ~@ /\ mine THEN TRUE ELSE @]
       /\ mu' = [mu EXCEPT ![w] = Unlock(Lock(@))]
       /\ Close(w)
       /\ Return(w, "eof")
       /\ UNCHANGED <<Color, Moves>>
    \* the runtime detects the concurrent map read and map write
    \/ /\ ~opponentGone[w]
       /\ RegistryWriters \ {w} # {}
       /\ fatal' = TRUE
       /\ mu' = [mu EXCEPT ![w] = Lock(@)]
       /\ UNCHANGED <<pc, exitWhy, Color, Moves, opponentGone, doneCh, closes>>

\* game.Moves after a record with this "moves" field.
MovesAfter(w, movesField) ==
    LET str == IF movesField = Absent THEN EmptyStr ELSE movesField IN
    IF str # EmptyStr THEN Fields(str) ELSE Moves[w]

\* A variant that takes botSide first and compares the ids only without it.
ColorAfterBotSideFirst(w, line) ==
    IF line.botSide # Absent THEN line.botSide
    ELSE IF line.black = botLichessUserID THEN Black
    ELSE IF line.white = botLichessUserID THEN White
    ELSE Color[w]

\* game.Color after a gameFull record: the comparison of white.id, then of
\* black.id, with the bot's id; botSide when game.Color is still empty.
ColorAfter(w, line) ==
    LET c1 == IF line.white = botLichessUserID THEN White ELSE Color[w]
        c2 == IF line.black = botLichessUserID THEN Black ELSE c1
    IN IF c2 = EmptyStr
       THEN IF line.botSide # Absent THEN line.botSide ELSE c2
       ELSE c2

\* case "gameFull"
GameFull(w, line) ==
    IF line.state = Absent
    THEN /\ mu' = [mu EXCEPT ![w] = Unlock(Lock(@))]
         /\ Close(w)
         /\ Return(w, "badGameFull")
         /\ eventData' = [eventData EXCEPT ![w] = line]
         /\ UNCHANGED <<Color, Moves, opponentGone, movesStr>>
    ELSE /\ Color' = [Color EXCEPT ![w] = ColorAfter(w, line)]
         /\ Moves' = [Moves EXCEPT ![w] = MovesAfter(w, line.moves)]
         /\ mu' = [mu EXCEPT ![w] = Unlock(Lock(@))]
         /\ movesStr' = [movesStr EXCEPT ![w] = line.moves]
         /\ eventData' = [eventData EXCEPT ![w] = line]
         /\ pc' = [pc EXCEPT ![w] = "turn"]
         /\ UNCHANGED <<opponentGone, doneCh, closes, fatal, exitWhy>>

\* A variant that returns on a final status without closing doneCh.
GameStateNoClose(w, line) ==
    LET status == IF line.status = Absent THEN EmptyStr ELSE line.status IN
    /\ Moves' = [Moves EXCEPT ![w] = MovesAfter(w, line.moves)]
    /\ mu' = [mu EXCEPT ![w] = Unlock(Lock(@))]
    /\ movesStr' = [movesStr EXCEPT ![w] = line.moves]
    /\ eventData' = [eventData EXCEPT ![w] = line]
    /\ IF isGameOver(status)
       THEN /\ Return(w, "gameOver")
            /\ UNCHANGED <<doneCh, closes, fatal>>
       ELSE /\ pc' = [pc EXCEPT ![w] = "turn"]
            /\ UNCHANGED <<doneCh, closes, fatal, exitWhy>>
    /\ UNCHANGED <<Color, opponentGone>>

\* A variant that closes doneCh on a final status and goes on to the turn.
GameStateNoReturn(w, line) ==
    LET status == IF line.status = Absent THEN EmptyStr ELSE line.status IN
    /\ Moves' = [Moves EXCEPT ![w] = MovesAfter(w, line.moves)]
    /\ mu' = [mu EXCEPT ![w] = Unlock(Lock(@))]
    /\ movesStr' = [movesStr EXCEPT ![w] = line.moves]
    /\ eventData' = [eventData EXCEPT ![w] = line]
    /\ pc' = [pc EXCEPT ![w] = "turn"]
    /\ IF isGameOver(status)
       THEN /\ Close(w)
            /\ exitWhy' = [exitWhy EXCEPT ![w] = "gameOver"]
       ELSE UNCHANGED <<doneCh, closes, fatal, exitWhy>>
    /\ UNCHANGED <<Color, opponentGone>>

\* case "gameState"
GameState(w, line) ==
    LET status == IF line.status = Absent THEN EmptyStr ELSE line.status IN
    /\ Moves' = [Moves EXCEPT ![w] = MovesAfter(w, line.moves)]
    /\ mu' = [mu EXCEPT ![w] = Unlock(Lock(@))]
    /\ movesStr' = [movesStr EXCEPT ![w] = line.moves]
    /\ eventData' = [eventData EXCEPT ![w] = line]
    /\ IF isGameOver(status)
       THEN /\ Close(w)
            /\ Return(w, "gameOver")
       ELSE /\ pc' = [pc EXCEPT ![w] = "turn"]
            /\ UNCHANGED <<doneCh, closes, fatal, exitWhy>>
    /\ UNCHANGED <<Color, opponentGone>>

\* A variant that takes the opponent's leaving for the end of the game.
OpponentGoneEndsSession(w, line) ==
    /\ opponentGone' =
           [opponentGone EXCEPT ![w] = IF line.gone = JsonTrue THEN TRUE ELSE @]
    /\ mu' = [mu EXCEPT ![w] = Unlock(Lock(@))]
    /\ eventData' = [eventData EXCEPT ![w] = line]
    /\ IF line.gone = JsonTrue
       THEN Close(w) /\ Return(w, "opponentGone")
       ELSE UNCHANGED <<pc, exitWhy, doneCh, closes, fatal>>
    /\ UNCHANGED <<Color, Moves, movesStr>>

\* case "opponentGone"
OpponentGone(w, line) ==
    /\ opponentGone' =
           [opponentGone EXCEPT ![w] = IF line.gone = JsonTrue THEN TRUE ELSE @]
    /\ mu' = [mu EXCEPT ![w] = Unlock(Lock(@))]
    /\ eventData' = [eventData EXCEPT ![w] = line]
    /\ UNCHANGED <<pc, exitWhy, Color, Moves, doneCh, closes, fatal, movesStr>>

\* A keep-alive, a line that is not JSON or has no string type: continue,
\* before game.mu is taken. A chatLine and an unhandled type: game.mu is
\* taken and released, and the loop goes on.
Skip(w, line) ==
    /\ mu' = [mu EXCEPT ![w] = IF line.type \in {"", "notJSON", "noType"}
                                THEN @ ELSE Unlock(Lock(@))]
    /\ eventData' = [eventData EXCEPT ![w] = line]
    /\ UNCHANGED <<pc, exitWhy, Color, Moves, opponentGone, doneCh, closes,
                   fatal, movesStr>>

\* The lines a game stream delivers. A gameFull line names the players and
\* may carry botSide; white and black are the players' ids; moves and
\* status are those of its state object.
Players ==
    { <<botLichessUserID, OtherUserID, Absent>>,
      <<botLichessUserID, OtherUserID, Black>>,
      <<OtherUserID, botLichessUserID, Absent>>,
      <<OtherUserID, botLichessUserID, White>>,
      <<botLichessUserID, botLichessUserID, Absent>>,
      <<OtherUserID, OtherUserID, Absent>>,
      <<OtherUserID, OtherUserID, White>>,
      <<OtherUserID, OtherUserID, Black>>,
      <<OtherUserID, OtherUserID, Random>>,
      <<Absent, Absent, Absent>>,
      <<Absent, Absent, White>> }

GameFullLines ==
    { [type |-> "gameFull", state |-> Absent, white |-> botLichessUserID,
       black |-> OtherUserID, botSide |-> Absent, moves |-> Absent,
       status |-> Absent] }
    \cup
    { [type |-> "gameFull", state |-> JsonMap, white |-> p[1], black |-> p[2],
       botSide |-> p[3], moves |-> m,
       status |-> <<"s", "t", "a", "r", "t", "e", "d">>] :
         p \in Players, m \in MovesStrs \cup {Absent} }
    \cup
    \* the game is over when the stream is opened
    { [type |-> "gameFull", state |-> JsonMap, white |-> p[1], black |-> p[2],
       botSide |-> Absent, moves |-> m, status |-> <<"m", "a", "t", "e">>] :
         p \in { <<botLichessUserID, OtherUserID>>,
                 <<OtherUserID, botLichessUserID>> },
         m \in MovesStrs \cup {Absent} }

GameStateLines ==
    { [type |-> "gameState", moves |-> m, status |-> s] :
         m \in {Absent, Join(SubSeq(MoveLine, 1, 1))}, s \in TerminalStatuses }
    \cup
    { [type |-> "gameState", moves |-> m, status |-> s] :
         m \in MovesStrs \cup {Absent}, s \in OngoingStatuses \cup {Absent} }

OtherLines ==
    { [type |-> t] : t \in {"", "notJSON", "noType", "chatLine", "other"} }
    \cup { [type |-> "opponentGone", gone |-> g] :
             g \in {JsonTrue, JsonFalse, Absent} }

GameLines == GameFullLines \cup GameStateLines \cup OtherLines

\* switch eventType
HandleLine(w, line) ==
    CASE line.type = "gameFull" -> GameFull(w, line)
      [] line.type = "gameState" -> GameState(w, line)
      [] line.type = "opponentGone" -> OpponentGone(w, line)
      [] OTHER -> Skip(w, line)

\* A variant that reads the next line while a turn waits for the oracle.
SgeLoopDuringTurn(w, lines) ==
    /\ ~fatal
    /\ UNCHANGED configVars
    /\ pc[w] \in {"select", "requery"}
    /\ IF doneCh[w] = "closed"
       THEN Return(w, "done") /\ UNCHANGED <<gameVars, fatal, movesStr, eventData>>
       ELSE \/ /\ pc' = [pc EXCEPT ![w] = "streamEnd"]
               /\ UNCHANGED <<exitWhy, gameVars, fatal, movesStr, eventData>>
            \/ \E line \in lines : HandleLine(w, line)
    /\ UNCHANGED <<dispatcherVars, registryVars, gameID, removes, turnVars>>

\* One round of the read loop: the select on doneCh, then the scan, which
\* fails or gives a line, one of lines, that is handled.
SgeLoop(w, lines) ==
    /\ ~fatal
    /\ UNCHANGED configVars
    /\ pc[w] = "select"
    /\ IF doneCh[w] = "closed"
       THEN Return(w, "done") /\ UNCHANGED <<gameVars, fatal, movesStr, eventData>>
       ELSE \/ /\ pc' = [pc EXCEPT ![w] = "streamEnd"]
               /\ UNCHANGED <<exitWhy, gameVars, fatal, movesStr, eventData>>
            \/ \E line \in lines : HandleLine(w, line)
    /\ UNCHANGED <<dispatcherVars, registryVars, gameID, removes, turnVars>>

\* scanner.Scan() has returned false, on a read error or at the end of the
\* stream: the membership test, the close and the return.
SgeStreamEnd(w) ==
    /\ ~fatal
    /\ UNCHANGED configVars
    /\ pc[w] = "streamEnd"
    /\ ScanEnd(w)
    /\ UNCHANGED <<dispatcherVars, registryVars, gameID, removes, movesStr, eventData,
                   turnVars>>

\* The deferred function: lock the registry, delete the entry, unlock.
SgeDeferLock(w) == LockRegistry(w, "deferred", "delete")

\* A variant whose deferred function closes doneCh as well.
SgeDeleteClosing(w) ==
    /\ ~fatal
    /\ UNCHANGED configVars
    /\ pc[w] = "delete"
    /\ activeGames' = [activeGames EXCEPT ![gameID[w]] = NoWorker]
    /\ removes' =
           [removes EXCEPT ![w] = IF activeGames[gameID[w]] # NoWorker
                                  THEN @ + 1 ELSE @]
    /\ activeGamesMutex' = Free
    /\ pc' = [pc EXCEPT ![w] = "exited"]
    /\ Close(w)
    /\ Color' = [Color EXCEPT ![w] = EmptyStr]
    /\ Moves' = [Moves EXCEPT ![w] = <<>>]
    /\ opponentGone' = [opponentGone EXCEPT ![w] = FALSE]
    /\ movesStr' = [movesStr EXCEPT ![w] = Absent]
    /\ eventData' = [eventData EXCEPT ![w] = NoEvent]
    /\ UNCHANGED <<dispatcherVars, gameID, mu, exitWhy, turnVars>>

\* With the entry deleted and the goroutine gone nothing refers to the Game
\* any more: its fields leave the state (doneCh and closes stay, as the
\* record of how the goroutine ended).
SgeDelete(w) ==
    /\ ~fatal
    /\ UNCHANGED configVars
    /\ pc[w] = "delete"
    /\ activeGames' = [activeGames EXCEPT ![gameID[w]] = NoWorker]
    /\ removes' =
           [removes EXCEPT ![w] = IF activeGames[gameID[w]] # NoWorker
                                  THEN @ + 1 ELSE @]
    /\ activeGamesMutex' = Free
    /\ pc' = [pc EXCEPT ![w] = "exited"]
    /\ Color' = [Color EXCEPT ![w] = EmptyStr]
    /\ Moves' = [Moves EXCEPT ![w] = <<>>]
    /\ opponentGone' = [opponentGone EXCEPT ![w] = FALSE]
    /\ movesStr' = [movesStr EXCEPT ![w] = Absent]
    /\ eventData' = [eventData EXCEPT ![w] = NoEvent]
    /\ UNCHANGED <<dispatcherVars, fatal, gameID, mu, doneCh, closes, exitWhy,
                   turnVars>>

(***************************************************************************)
(* A turn: checkAndMakeMove(game, state).                                  *)
(***************************************************************************)
\* A return statement of checkAndMakeMove; its locals end with it.
Finish(w, how) ==
    /\ pc' = [pc EXCEPT ![w] = "turnEnd"]
    /\ outcome' = [outcome EXCEPT ![w] = how]
    /\ nextMove' = [nextMove EXCEPT ![w] = EmptyStr]
    /\ attempt' = [attempt EXCEPT ![w] = 0]

\* A variant whose loop test is attempt <= 3.
LoopHeadInclusive(w, move, a) ==
    IF a <= 3
    THEN /\ pc' = [pc EXCEPT ![w] = "submit"]
         /\ nextMove' = [nextMove EXCEPT ![w] = move]
         /\ attempt' = [attempt EXCEPT ![w] = a]
         /\ UNCHANGED outcome
    ELSE Finish(w, "exhausted")

\* The head of the retry loop with nextMove = move and attempt = a: the
\* body runs while attempt < 3, then the function returns.
LoopHead(w, move, a) ==
    IF a < MaxAttempts
    THEN /\ pc' = [pc EXCEPT ![w] = "submit"]
         /\ nextMove' = [nextMove EXCEPT ![w] = move]
         /\ attempt' = [attempt EXCEPT ![w] = a]
         /\ UNCHANGED outcome
    ELSE Finish(w, "exhausted")

\* A variant with the parity the wrong way round.
currentTurnColorSwapped(numMoves) == IF numMoves % 2 = 0 THEN Black ELSE White

\* The side to move after numMoves moves.
currentTurnColor(numMoves) == IF numMoves % 2 = 0 THEN White ELSE Black

\* A variant that goes on to the oracle and the transport with game.mu held.
CamEntryKeepsLock(w) ==
    /\ ~fatal
    /\ UNCHANGED configVars
    /\ pc[w] = "turn"
    /\ LET numMoves == Len(Moves[w]) IN
       IF Color[w] = EmptyStr
       THEN /\ mu' = [mu EXCEPT ![w] = Unlock(Lock(@))]
            /\ Finish(w, "noColor")
            /\ UNCHANGED <<currentMovesForLLM, gameColorForLogic>>
       ELSE IF Color[w] # currentTurnColor(numMoves)
       THEN /\ mu' = [mu EXCEPT ![w] = Unlock(Lock(@))]
            /\ Finish(w, "notOurTurn")
            /\ UNCHANGED <<currentMovesForLLM, gameColorForLogic>>
       ELSE /\ currentMovesForLLM' = [currentMovesForLLM EXCEPT ![w] = Moves[w]]
            /\ gameColorForLogic' = [gameColorForLogic EXCEPT ![w] = Color[w]]
            /\ mu' = [mu EXCEPT ![w] = Lock(@)]
            /\ IF Color[w] = White /\ numMoves = 0
               THEN LoopHead(w, OpeningMove, 0)
               ELSE /\ pc' = [pc EXCEPT ![w] = "query"]
                    /\ UNCHANGED <<nextMove, attempt, outcome>>
    /\ movesStr' = [movesStr EXCEPT ![w] = Absent]
    /\ eventData' = [eventData EXCEPT ![w] = NoEvent]
    /\ UNCHANGED <<dispatcherVars, registryVars, fatal, gameID, Color, Moves,
                   opponentGone, doneCh, closes, removes, exitWhy, lastOracle,
                   lastReply, llmCalls, moveCalls, llmQuery>>

\* The entry of checkAndMakeMove: under game.mu, whose turn it is; the
\* copies of the moves and the colour; game.mu released; the fixed first
\* move as white.
CamEntry(w) ==
    /\ ~fatal
    /\ UNCHANGED configVars
    /\ pc[w] = "turn"
    /\ LET numMoves == Len(Moves[w]) IN
       IF Color[w] = EmptyStr
       THEN /\ mu' = [mu EXCEPT ![w] = Unlock(Lock(@))]
            /\ Finish(w, "noColor")
            /\ UNCHANGED <<currentMovesForLLM, gameColorForLogic>>
       ELSE IF Color[w] # currentTurnColor(numMoves)
       THEN /\ mu' = [mu EXCEPT ![w] = Unlock(Lock(@))]
            /\ Finish(w, "notOurTurn")
            /\ UNCHANGED <<currentMovesForLLM, gameColorForLogic>>
       ELSE /\ currentMovesForLLM' = [currentMovesForLLM EXCEPT ![w] = Moves[w]]
            /\ gameColorForLogic' = [gameColorForLogic EXCEPT ![w] = Color[w]]
            /\ mu' = [mu EXCEPT ![w] = Unlock(Lock(@))]
            /\ IF Color[w] = White /\ numMoves = 0
               THEN LoopHead(w, OpeningMove, 0)
               ELSE /\ pc' = [pc EXCEPT ![w] = "query"]
                    /\ UNCHANGED <<nextMove, attempt, outcome>>
    /\ movesStr' = [movesStr EXCEPT ![w] = Absent]
    /\ eventData' = [eventData EXCEPT ![w] = NoEvent]
    /\ UNCHANGED <<dispatcherVars, registryVars, fatal, gameID, Color, Moves,
                   opponentGone, doneCh, closes, removes, exitWhy, lastOracle,
                   lastReply, llmCalls, moveCalls, llmQuery>>

\* A variant without the two tests: the loop goes on with whatever came back.
AskOracleIgnoresError(w, resp, nextAttempt) ==
    LET r == getBestMoveFromLLM(resp) IN
    /\ llmCalls' = [llmCalls EXCEPT ![w] = @ + 1]
    /\ lastOracle' =
           [lastOracle EXCEPT ![w] = IF r.err.nil /\ r.move # EmptyStr
                                     THEN "move" ELSE "failed"]
    /\ LoopHead(w, r.move, nextAttempt)

\* nextMove, err = getBestMoveFromLLM(currentMovesForLLM, feedback), and the
\* two tests that follow it: an error or an empty move ends the turn.
AskOracle(w, resp, nextAttempt) ==
    LET r == getBestMoveFromLLM(resp) IN
    /\ llmCalls' = [llmCalls EXCEPT ![w] = @ + 1]
    /\ lastOracle' =
           [lastOracle EXCEPT ![w] = IF r.err.nil /\ r.move # EmptyStr
                                     THEN "move" ELSE "failed"]
    /\ IF ~r.err.nil THEN Finish(w, "oracleFailed")
       ELSE IF r.move = EmptyStr THEN Finish(w, "noMove")
       ELSE LoopHead(w, r.move, nextAttempt)

\* fmt.Sprintf("%v", moves) for a []string: the words between brackets.
SprintMoves(moves) == Concat(<< <<"[">>, Join(moves), <<"]">> >>)

\* A variant that never names the move that was rejected.
feedbackToLLMWithoutMove(move, moves) ==
    Concat(<<
        <<"P", "l", "e", "a", "s", "e", " ", "p", "r", "o", "v", "i", "d",
          "e", " ", "a", " ", "v", "a", "l", "i", "d", " ", "U", "C", "I",
          " ", "m", "o", "v", "e", " ", "(", "c", "u", "r", "r", "e", "n",
          "t", " ", "m", "o", "v", "e", " ", "l", "i", "s", "t", ":", " ">>,
        SprintMoves(moves), <<")", ".">> >>)

\* feedbackToLLM for the query after the rejection of move.
feedbackToLLM(move, moves) ==
    IF move # EmptyStr
    THEN Concat(<<
        <<"Y", "o", "u", "r", " ", "p", "r", "e", "v", "i", "o", "u", "s",
          " ", "s", "u", "g", "g", "e", "s", "t", "e", "d", " ", "m", "o",
          "v", "e", " ">>,
        move,
        <<" ", "(", "f", "o", "r", " ", "m", "o", "v", "e", " ", "l", "i",
          "s", "t", ":", " ">>,
        SprintMoves(moves),
        <<")", " ", "w", "a", "s", " ", "i", "n", "v", "a", "l", "i", "d",
          ".", " ", "P", "l", "e", "a", "s", "e", " ", "p", "r", "o", "v",
          "i", "d", "e", " ", "a", " ", "d", "i", "f", "f", "e", "r", "e",
          "n", "t", " ", "v", "a", "l", "i", "d", " ", "U", "C", "I", " ",
          "m", "o", "v", "e", ".">> >>)
    ELSE Concat(<<
        <<"P", "l", "e", "a", "s", "e", " ", "p", "r", "o", "v", "i", "d",
          "e", " ", "a", " ", "v", "a", "l", "i", "d", " ", "U", "C", "I",
          " ", "m", "o", "v", "e", " ", "(", "c", "u", "r", "r", "e", "n",
          "t", " ", "m", "o", "v", "e", " ", "l", "i", "s", "t", ":", " ">>,
        SprintMoves(moves), <<")", ".">> >>)

\* The first query of a turn, without feedback; the oracle answers with one
\* of responses.
CamQuery(w, responses) ==
    /\ ~fatal
    /\ UNCHANGED configVars
    /\ pc[w] = "query"
    /\ \E resp \in responses : AskOracle(w, resp, 0)
    /\ llmQuery' =
           [llmQuery EXCEPT ![w] = Query(currentMovesForLLM[w], EmptyStr)]
    /\ UNCHANGED <<dispatcherVars, registryVars, fatal, gameID, gameVars,
                   removes, movesStr, eventData, exitWhy,
                   currentMovesForLLM, gameColorForLogic, lastReply, moveCalls>>

\* What a call of makeMove came back with: nil, an error whose text names
\* the move as illegal, or another error.
ReplyKind(e) ==
    IF e.nil THEN "accepted"
    ELSE IF \E phrase \in
                { <<"i", "l", "l", "e", "g", "a", "l", " ", "m", "o", "v", "e">>,
                  <<"i", "n", "v", "a", "l", "i", "d", " ", "u", "c", "i">>,
                  <<"m", "e", "m", "b", "e", "r", " ", "m", "o", "v", "e", " ",
                    "n", "o", "t", " ", "f", "o", "u", "n", "d">>,
                  <<"n", "o", "t", " ", "p", "o", "s", "s", "i", "b", "l", "e",
                    " ", "t", "o", " ", "p", "l", "a", "y">>,
                  <<"c", "a", "n", "n", "o", "t", " ", "m", "o", "v", "e", " ",
                    "t", "o">> } : Contains(ToLower(e.text), phrase)
         THEN "illegal"
         ELSE "other"

\* A variant that submits the same move again after an invalid move, without
\* a new query.
SubmitRetriesSameMove(w, resp) ==
    LET e == makeMove(gameID[w], nextMove[w], resp) IN
    /\ moveCalls' = [moveCalls EXCEPT ![w] = @ + 1]
    /\ lastReply' = [lastReply EXCEPT ![w] = ReplyKind(e)]
    /\ IF e.nil THEN Finish(w, "success")
       ELSE IF IsInvalidMoveError(e.text)
       THEN LoopHead(w, nextMove[w], attempt[w] + 1)
       ELSE Finish(w, "otherError")

\* err = makeMove(gameIDForLogic, nextMove) and its classification.
Submit(w, resp) ==
    LET e == makeMove(gameID[w], nextMove[w], resp) IN
    /\ moveCalls' = [moveCalls EXCEPT ![w] = @ + 1]
    /\ lastReply' = [lastReply EXCEPT ![w] = ReplyKind(e)]
    /\ IF e.nil THEN Finish(w, "success")
       ELSE IF IsInvalidMoveError(e.text)
       THEN pc' = [pc EXCEPT ![w] = "requery"]
            /\ UNCHANGED <<nextMove, attempt, outcome>>
       ELSE Finish(w, "otherError")

\* One round of the retry loop; the transport answers with one of responses.
CamSubmit(w, responses) ==
    /\ ~fatal
    /\ UNCHANGED configVars
    /\ pc[w] = "submit"
    /\ \E resp \in responses : Submit(w, resp)
    /\ llmQuery' = [llmQuery EXCEPT ![w] = NoQuery]
    /\ UNCHANGED <<dispatcherVars, registryVars, fatal, gameID, gameVars,
                   removes, movesStr, eventData, exitWhy,
                   currentMovesForLLM, gameColorForLogic, lastOracle, llmCalls>>

\* The query after an invalid move, with feedback; then attempt++.
CamRequery(w, responses) ==
    /\ ~fatal
    /\ UNCHANGED configVars
    /\ pc[w] = "requery"
    /\ \E resp \in responses : AskOracle(w, resp, attempt[w] + 1)
    /\ llmQuery' =
           [llmQuery EXCEPT ![w] =
               Query(currentMovesForLLM[w],
                     feedbackToLLM(nextMove[w], currentMovesForLLM[w]))]
    /\ UNCHANGED <<dispatcherVars, registryVars, fatal, gameID, gameVars,
                   removes, movesStr, eventData, exitWhy,
                   currentMovesForLLM, gameColorForLogic, lastReply, moveCalls>>

\* A variant in which the goroutine returns after every turn.
CamReturnEndsWorker(w) ==
    /\ ~fatal
    /\ UNCHANGED configVars
    /\ pc[w] = "turnEnd"
    /\ Return(w, "turnOver")
    /\ currentMovesForLLM' = [currentMovesForLLM EXCEPT ![w] = <<>>]
    /\ gameColorForLogic' = [gameColorForLogic EXCEPT ![w] = EmptyStr]
    /\ lastOracle' = [lastOracle EXCEPT ![w] = ""]
    /\ lastReply' = [lastReply EXCEPT ![w] = ""]
    /\ llmCalls' = [llmCalls EXCEPT ![w] = 0]
    /\ moveCalls' = [moveCalls EXCEPT ![w] = 0]
    /\ outcome' = [outcome EXCEPT ![w] = ""]
    /\ llmQuery' = [llmQuery EXCEPT ![w] = NoQuery]
    /\ UNCHANGED <<dispatcherVars, registryVars, fatal, gameID, gameVars,
                   removes, movesStr, eventData, nextMove, attempt>>

\* checkAndMakeMove has returned: back to the read loop.
CamReturn(w) ==
    /\ ~fatal
    /\ UNCHANGED configVars
    /\ pc[w] = "turnEnd"
    /\ pc' = [pc EXCEPT ![w] = "select"]
    /\ currentMovesForLLM' = [currentMovesForLLM EXCEPT ![w] = <<>>]
    /\ gameColorForLogic' = [gameColorForLogic EXCEPT ![w] = EmptyStr]
    /\ lastOracle' = [lastOracle EXCEPT ![w] = ""]
    /\ lastReply' = [lastReply EXCEPT ![w] = ""]
    /\ llmCalls' = [llmCalls EXCEPT ![w] = 0]
    /\ moveCalls' = [moveCalls EXCEPT ![w] = 0]
    /\ outcome' = [outcome EXCEPT ![w] = ""]
    /\ llmQuery' = [llmQuery EXCEPT ![w] = NoQuery]
    /\ UNCHANGED <<dispatcherVars, registryVars, fatal, gameID, gameVars,
                   removes, movesStr, eventData, exitWhy,
                   nextMove, attempt>>

(***************************************************************************)
(* The system.                                                             *)
(***************************************************************************)
\* The steps of the process when the global stream announces the games ids,
\* the game streams deliver lines, the oracle answers with oracle and the
\* transport with transport.
System(ids, lines, oracle, transport) ==
    \/ DConnect
    \/ DGameStart(ids)
    \/ DOtherLine
    \/ DScanEnd
    \/ DRestart
    \/ \E w \in Workers :
          \/ SgeLock(w)
          \/ SgeDuplicate(w)
          \/ SgeNotFound(w)
          \/ SgeRegister(w)
          \/ SgeConnect(w)
          \/ SgeLoop(w, lines)
          \/ SgeStreamEnd(w)
          \/ SgeDeferLock(w)
          \/ SgeDelete(w)
          \/ CamEntry(w)
          \/ CamQuery(w, oracle)
          \/ CamSubmit(w, transport)
          \/ CamRequery(w, oracle)
          \/ CamReturn(w)

\* One game, announced any number of times, with every line and response.
Next == System({<<"g", "1">>}, GameLines, OracleResponses, MoveResponses)

Spec == Init /\ [][Next]_vars

\* Two games at once, each with the lines and responses of a short game.
ShortGameLines ==
    { [type |-> "gameFull", state |-> JsonMap, white |-> botLichessUserID,
       black |-> OtherUserID, botSide |-> Absent, moves |-> EmptyStr,
       status |-> <<"s", "t", "a", "r", "t", "e", "d">>],
      [type |-> "gameState", moves |-> Join(SubSeq(MoveLine, 1, 1)),
       status |-> <<"s", "t", "a", "r", "t", "e", "d">>],
      [type |-> "gameState", moves |-> Join(SubSeq(MoveLine, 1, 2)),
       status |-> <<"s", "t", "a", "r", "t", "e", "d">>],
      [type |-> "gameState", moves |-> Absent, status |-> <<"m", "a", "t", "e">>],
      [type |-> "opponentGone", gone |-> JsonTrue],
      [type |-> "chatLine"] }

ShortOracleResponses ==
    { [doErr |-> TRUE, status |-> 0, jsonOk |-> FALSE,
       apiError |-> EmptyStr, choices |-> <<>>],
      OracleReply(EmptyStr, << <<" ", "e", "7", "e", "5", "\n">> >>) }

ShortMoveResponses ==
    { MoveResponse(StatusOK, Status200, EmptyStr, TRUE, JsonTrue, Absent),
      MoveResponse(400, Status400, EmptyStr, TRUE, Absent, TextIllegalMove),
      MoveResponse(400, Status400, EmptyStr, TRUE, Absent, TextNotYourTurn) }

NextGames ==
    System(GameIds, ShortGameLines, ShortOracleResponses, ShortMoveResponses)

GamesSpec == Init /\ [][NextGames]_vars

\* The /health handler: activeGamesMutex.Lock().
HealthLock ==
    /\ ~fatal
    /\ UNCHANGED configVars
    /\ activeGamesMutex = Free
    /\ activeGamesMutex' = HealthHandler
    /\ UNCHANGED <<dispatcherVars, activeGames, fatal, pc, gameID, gameVars,
                   removes, movesStr, eventData, exitWhy, turnVars>>

\* The /health handler: numActiveGames := len(activeGames), Unlock, and the
\* response is written.
HealthServe ==
    /\ ~fatal
    /\ UNCHANGED configVars
    /\ activeGamesMutex = HealthHandler
    /\ activeGamesMutex' = Free
    /\ UNCHANGED <<dispatcherVars, activeGames, fatal, pc, gameID, gameVars,
                   removes, movesStr, eventData, exitWhy, turnVars>>

\* Two games at once, each with the start of a game, a position in which
\* the bot is to move, the game's end, and the lines that carry no position,
\* and the status endpoint, asked any number of times.
HealthGameLines ==
    {line \in ShortGameLines :
        line.type = "gameState"
        => line.moves \in {Absent, Join(SubSeq(MoveLine, 1, 2))}}

HealthMoveResponses ==
    { MoveResponse(StatusOK, Status200, EmptyStr, TRUE, JsonTrue, Absent),
      MoveResponse(400, Status400, EmptyStr, TRUE, Absent, TextIllegalMove) }

NextHealth ==
    \/ System(GameIds, HealthGameLines, ShortOracleResponses,
              HealthMoveResponses)
    \/ HealthLock
    \/ HealthServe

HealthSpec == Init /\ [][NextHealth]_vars

\* One game with few lines and responses, and the dispatcher's restart
\* taken in its two steps as well: the go statement, and the return of the
\* instance that ran it.
NextDispatcher ==
    \/ System({<<"g", "1">>}, ShortGameLines, ShortOracleResponses,
              ShortMoveResponses)
    \/ DGo
    \/ DReturn

DispatcherSpec == Init /\ [][NextDispatcher]_vars

\* One game with few lines and responses, and every challenge.
NextChallenges ==
    \/ DChallenge(Challenges)
    \/ System({<<"g", "1">>}, ShortGameLines, ShortOracleResponses,
              ShortMoveResponses)

ChallengeSpec == Init /\ [][NextChallenges]_vars

\* The dispatcher's sleep ends: the instance that slept starts the next one.
LiveSpec == Spec /\ WF_vars(DRestart)

\* LoadConfig, called once in an environment and with a file .env of any
\* of the kinds above.
ConfigInit ==
    /\ BotInit
    /\ environ \in Environs
    /\ environ0 = environ
    /\ dotEnv \in Files
    /\ cfg = NilConfig
    /\ err = NilError
    /\ loaded = FALSE

CallLoadConfig ==
    /\ cfg.nil /\ err.nil
    /\ LET r == LoadConfig(environ, dotEnv) IN
       /\ cfg' = r.cfg
       /\ err' = r.err
       /\ environ' = r.environ
    /\ UNCHANGED <<environ0, dotEnv, loaded, dispatcherVars, registryVars,
                   fatal, pc, gameID, gameVars, removes, movesStr, eventData,
                   exitWhy, turnVars>>

ConfigSpec == ConfigInit /\ [][CallLoadConfig]_vars

\* loadEnvFromFileToSystem(".env"), called once by itself.
CallLoadEnvFromFileToSystem ==
    /\ ~loaded
    /\ environ' = loadEnvFromFileToSystem(environ, dotEnv)
    /\ loaded' = TRUE
    /\ UNCHANGED <<environ0, dotEnv, cfg, err, dispatcherVars, registryVars,
                   fatal, pc, gameID, gameVars, removes, movesStr, eventData,
                   exitWhy, turnVars>>

EnvFileSpec == ConfigInit /\ [][CallLoadEnvFromFileToSystem]_vars

(***************************************************************************)
(* Properties.                                                             *)
(***************************************************************************)
\* The turn of worker w started as white on an empty move list.
OpeningTurn(w) == gameColorForLogic[w] = White /\ currentMovesForLLM[w] = <<>>

\* The positions between the registration of a worker and its removal.
Registered ==
    {"connect", "select", "streamEnd", "turn", "query", "submit", "requery",
     "turnEnd", "deferred", "delete"}

\* C1: in a turn the oracle or the transport is called only when the
\* game's Color is set and is the side to move by the parity of the move
\* list (even: white, odd: black); without a Color, or with the other side
\* to move, the turn makes no call at all.
C1_CallsOnlyOnOwnTurn ==
    \A w \in Workers :
        (pc[w] \in {"query", "submit", "requery"}
           \/ llmCalls[w] > 0 \/ moveCalls[w] > 0)
        => \/ Color[w] = White /\ Len(Moves[w]) % 2 = 0
           \/ Color[w] = Black /\ Len(Moves[w]) % 2 = 1

\* A turn as black after one move, in which a move was submitted.
C1_Witness ==
    \E w \in Workers :
        /\ pc[w] = "turnEnd"
        /\ moveCalls[w] > 0
        /\ Color[w] = Black
        /\ Len(Moves[w]) = 1

\* C2: a turn calls makeMove at most 3 times, whatever the oracle and the
\* transport answer.
C2_AtMostThreeSubmissions == \A w \in Workers : moveCalls[w] <= 3

\* A turn with three submissions.
C2_Witness == \E w \in Workers : moveCalls[w] = 3

\* C3: a turn whose three submissions were all rejected as invalid moves
\* has not queried the oracle a fourth time.
C3_NoFourthQuery ==
    \A w \in Workers :
        (moveCalls[w] = 3 /\ lastReply[w] = "illegal") => llmCalls[w] <= 3

\* C4: a submission that fails with an error naming no illegality ends the
\* turn at once, on whichever attempt: no submission and no oracle query
\* follows it.
C4_OtherErrorEndsTurn ==
    \A w \in Workers :
        lastReply[w] = "other"
        => /\ pc[w] = "turnEnd"
           /\ outcome[w] = "otherError"
           /\ llmCalls[w] = IF OpeningTurn(w) THEN moveCalls[w] - 1
                             ELSE moveCalls[w]

\* Such an error on the third attempt.
C4_Witness ==
    \E w \in Workers : lastReply[w] = "other" /\ moveCalls[w] = 3

\* C5: at any time at most one worker per game id stands between its
\* registration and its removal; a worker that finds its game id in the
\* registry returns at once and leaves the registry and every game as they
\* are.
C5_OneWorkerPerGame ==
    /\ [](\A g \in GameIds :
            Cardinality({w \in Workers :
                            gameID[w] = g /\ pc[w] \in Registered}) <= 1)
    /\ [][\A w \in Workers :
            (pc[w] = "check" /\ activeGames[gameID[w]] # NoWorker
               /\ pc'[w] # "check")
            => /\ pc'[w] = "exited"
               /\ activeGames' = activeGames
               /\ gameVars' = gameVars
               /\ turnVars' = turnVars]_vars

\* A second worker for a game has returned while the first is in a turn.
C5_Witness ==
    \E w, v \in Workers :
        /\ w # v
        /\ gameID[w] = gameID[v]
        /\ pc[w] = "exited" /\ exitWhy[w] = "duplicate"
        /\ pc[v] = "submit"

\* C6: a worker that returned on a gameState record with a final status
\* has closed doneCh exactly once, and its game is removed from the
\* registry exactly once, by its deferred function.
C6_TerminalClosesAndRemovesOnce ==
    \A w \in Workers :
        exitWhy[w] = "gameOver"
        => /\ closes[w] = 1
           /\ doneCh[w] = "closed"
           /\ ~fatal
           /\ IF pc[w] = "exited"
              THEN removes[w] = 1 /\ activeGames[gameID[w]] # w
              ELSE removes[w] = 0 /\ activeGames[gameID[w]] = w

\* A worker that has ended this way.
C6_Witness ==
    \E w \in Workers :
        exitWhy[w] = "gameOver" /\ pc[w] = "exited" /\ removes[w] = 1

\* C7: after a gameState record with a final status the worker starts no
\* turn for it and reads no further line: it is on its way out.
C7_NothingAfterTerminal ==
    \A w \in Workers :
        exitWhy[w] = "gameOver"
        => /\ pc[w] \in {"deferred", "delete", "exited"}
           /\ llmCalls[w] = 0
           /\ moveCalls[w] = 0
           /\ outcome[w] = ""

\* A final status arrived in a position where the bot was to move.
C7_Witness ==
    \E w \in Workers :
        /\ exitWhy[w] = "gameOver"
        /\ pc[w] = "deferred"
        /\ Color[w] = Black
        /\ Len(Moves[w]) = 1

\* C8: as white on an empty move list the turn never queries the oracle
\* before its first submission, and that submission is d2d4.
C8_OpeningMoveWithoutOracle ==
    \A w \in Workers :
        (Color[w] = White /\ Moves[w] = <<>>)
        => /\ pc[w] # "query"
           /\ (pc[w] = "submit" /\ moveCalls[w] = 0)
              => (nextMove[w] = <<"d", "2", "d", "4">> /\ llmCalls[w] = 0)

\* The opening move was submitted and accepted, without any oracle call.
C8_Witness ==
    \E w \in Workers :
        /\ Color[w] = White /\ Moves[w] = <<>>
        /\ pc[w] = "turnEnd" /\ outcome[w] = "success"
        /\ moveCalls[w] = 1 /\ llmCalls[w] = 0

\* C9: when a submission is accepted the turn ends in success after k
\* submissions, 1 <= k <= 3, and, unless it began with the opening move,
\* after exactly k oracle queries; the game stays registered.
C9_AcceptedOnKthAttempt ==
    \A w \in Workers :
        lastReply[w] = "accepted"
        => /\ pc[w] = "turnEnd"
           /\ outcome[w] = "success"
           /\ moveCalls[w] \in 1..3
           /\ ~OpeningTurn(w) => llmCalls[w] = moveCalls[w]
           /\ activeGames[gameID[w]] = w

\* The second submission was accepted, after two oracle queries.
C9_Witness ==
    \E w \in Workers :
        /\ lastReply[w] = "accepted"
        /\ ~OpeningTurn(w)
        /\ moveCalls[w] = 2
        /\ llmCalls[w] = 2

\* C10: an oracle query that fails or yields no move ends the turn: no
\* submission follows it, and the game is as it was - registered, doneCh
\* open, Moves and Color as at the start of the turn.
C10_OracleFailureSkipsTurn ==
    \A w \in Workers :
        lastOracle[w] = "failed"
        => /\ pc[w] = "turnEnd"
           /\ outcome[w] \in {"oracleFailed", "noMove"}
           /\ moveCalls[w] = IF OpeningTurn(w) THEN llmCalls[w]
                              ELSE llmCalls[w] - 1
           /\ activeGames[gameID[w]] = w
           /\ doneCh[w] = "open"
           /\ Moves[w] = currentMovesForLLM[w]
           /\ Color[w] = gameColorForLogic[w]

\* The oracle failed on a retry, after two rejected submissions.
C10_Witness ==
    \E w \in Workers : lastOracle[w] = "failed" /\ moveCalls[w] = 2

\* C11: a turn that ends after a rejected submission - the third invalid
\* move or an error of another kind - leaves the game registered, doneCh
\* open and Moves and Color as they were, and the goroutine goes back to the
\* read loop, where the next record starts a turn again.
C11_FailedTurnKeepsSession ==
    /\ [](\A w \in Workers :
            (pc[w] = "turnEnd" /\ lastReply[w] \in {"illegal", "other"})
            => /\ activeGames[gameID[w]] = w
               /\ doneCh[w] = "open" /\ closes[w] = 0
               /\ Moves[w] = currentMovesForLLM[w]
               /\ Color[w] = gameColorForLogic[w])
    /\ [][\A w \in Workers :
            (pc[w] = "turnEnd" /\ lastReply[w] \in {"illegal", "other"}
               /\ pc'[w] # "turnEnd")
            => /\ pc'[w] = "select"
               /\ activeGames' = activeGames
               /\ gameVars' = gameVars]_vars

\* A turn given up after three invalid moves.
C11_Witness ==
    \E w \in Workers :
        pc[w] = "turnEnd" /\ outcome[w] = "exhausted" /\ moveCalls[w] = 3

\* C12: for a created challenge with an id, accept is called exactly when
\* the variant key is standard, the challenger's bot flag is not true and
\* the challenger's id is not the bot's own; otherwise decline is called,
\* with reason standardOnly or noBot.
C12_AcceptIffStandardHuman ==
    LET c == answered.challenge IN
    (c.id # Absent /\ c.status = Created)
    => /\ answered.call = "accept"
          <=> /\ c.variant /\ c.key = Standard
              /\ c.bot # JsonTrue
              /\ c.challengerID # botLichessUserID
       /\ answered.call # "accept"
          => /\ answered.call = "decline"
             /\ answered.reason \in {"standardOnly", "noBot"}

\* C13: whenever the dispatcher sleeps after a failure - to connect, a
\* non-OK status, a read error, the end of the stream - a new instance that
\* connects again is started, however many failures came before.
C13_DispatcherRestarts == (dpc.at = "sleep") ~> (dpc.at = "connect")

\* A failure to connect again, after the stream of a running game's
\* dispatcher had ended.
C13_Witness ==
    /\ dpc.at = "sleep" /\ dpc.why = "error"
    /\ \E w \in Workers : pc[w] = "select"

\* C14: the dispatcher sleeps 15 seconds after a failure to connect or a
\* non-OK status and 5 seconds after a read error or the end of the stream,
\* whatever happened before.
C14_FixedDelayByFailureKind ==
    IF dpc.at = "sleep"
    THEN \/ dpc.why \in {"error", "nonOK"} /\ dpc.seconds = 15
         \/ dpc.why \in {"readError", "closed"} /\ dpc.seconds = 5
    ELSE dpc.seconds = 0

\* The stream was closed while a game was running; the sleep is 5 seconds.
C14_Witness ==
    /\ dpc.at = "sleep" /\ dpc.why = "closed" /\ dpc.seconds = 5
    /\ \E w \in Workers : pc[w] = "turn"

\* C15: a goroutine that returned because its game stream ended has set
\* opponentGone and closed doneCh, and is on its way out, as is one whose
\* connection failed: neither connects again.
C15_StreamEndMarksGoneAndCloses ==
    \A w \in Workers :
        /\ (exitWhy[w] = "eof" /\ pc[w] \in {"deferred", "delete"})
           => (opponentGone[w] /\ doneCh[w] = "closed" /\ closes[w] = 1)
        /\ exitWhy[w] \in {"eof", "error", "nonOK"}
           => pc[w] \in {"deferred", "delete", "exited"}

\* C16: a goroutine that stands at a read or a write of activeGames holds
\* activeGamesMutex, and a goroutine that holds it stands at no network
\* call.
C16_RegistryAccessUnderLock ==
    \A w \in Workers :
        /\ (\/ pc[w] \in {"check", "insert", "delete"}
            \/ pc[w] = "streamEnd" /\ ~opponentGone[w])
           => activeGamesMutex = w
        /\ activeGamesMutex = w => pc[w] \in {"check", "insert", "delete"}

\* C17: a game id is in the registry exactly when one goroutine for it
\* stands between its insert and its deferred delete, and that goroutine is
\* the entry's; a goroutine that has returned after its insert, by whichever
\* return statement, has removed the entry.
C17_RegistryMatchesWorkers ==
    /\ \A g \in GameIds :
          LET ws == {w \in Workers : gameID[w] = g /\ pc[w] \in Registered}
          IN  IF activeGames[g] = NoWorker THEN ws = {}
              ELSE ws = {activeGames[g]}
    /\ \A w \in Workers :
          (pc[w] = "exited" /\ exitWhy[w] # "duplicate")
          => (removes[w] = 1 /\ activeGames[gameID[w]] # w)

\* A goroutine whose game stream answered with a non-OK status has
\* returned, and its game id is free again.
C17_Witness ==
    \E w \in Workers :
        /\ pc[w] = "exited" /\ exitWhy[w] = "nonOK"
        /\ removes[w] = 1
        /\ activeGames[gameID[w]] = NoWorker

\* C18: doneCh is closed at most once, whatever lines the game stream
\* delivers: no close finds it closed.
C18_ClosedAtMostOnce ==
    /\ ~fatal
    /\ \A w \in Workers :
          /\ closes[w] <= 1
          /\ closes[w] = 1 <=> doneCh[w] = "closed"

\* A goroutine that closed doneCh on a gameFull line without state and has
\* returned.
C18_Witness ==
    \E w \in Workers :
        pc[w] = "exited" /\ exitWhy[w] = "badGameFull" /\ closes[w] = 1

\* C19: after a gameFull or gameState line that carries a moves string,
\* game.Moves is the list of the fields of that string, the empty list
\* included, whatever it was before.
C19_MovesReplaced ==
    \A w \in Workers :
        (/\ pc[w] = "turn" \/ (exitWhy[w] = "gameOver" /\ pc[w] = "deferred")
         /\ movesStr[w] # Absent)
        => Moves[w] = Fields(movesStr[w])

\* C20: game.Color is empty, white or black, whatever the gameFull line
\* holds, its botSide included.
C20_SideIsWhiteBlackOrUnassigned ==
    \A w \in Workers : Color[w] \in {EmptyStr, White, Black}

\* C21: once game.Color has a value it keeps it for as long as the goroutine
\* runs, whatever lines follow, further gameFull lines included.
C21_SideAssignedOnce ==
    [][\A w \in Workers :
          (Color[w] # EmptyStr /\ pc'[w] \in Registered)
          => Color'[w] = Color[w]]_vars

\* C22: a gameFull line sets game.Color from the comparison of the players'
\* ids with the bot's id (white when white.id is the bot's, black when
\* black.id is); botSide is taken only when neither id is the bot's and no
\* colour is set yet; with no botSide either game.Color stays empty, and
\* then every turn returns at once, without a call of the oracle or of the
\* transport, and the read loop goes on.
C22_SideFromIdentityThenBotSide ==
    [][\A w \in Workers :
          /\ (pc[w] = "select" /\ pc'[w] = "turn"
                 /\ eventData'[w].type = "gameFull")
             => LET line == eventData'[w]
                    isWhite == line.white = botLichessUserID
                    isBlack == line.black = botLichessUserID
                IN /\ (isWhite /\ ~isBlack) => Color'[w] = White
                   /\ (isBlack /\ ~isWhite) => Color'[w] = Black
                   /\ (isWhite /\ isBlack) => Color'[w] \in {White, Black}
                   /\ (~isWhite /\ ~isBlack /\ Color[w] = EmptyStr)
                      => Color'[w] = IF line.botSide # Absent
                                     THEN line.botSide ELSE EmptyStr
                   /\ (~isWhite /\ ~isBlack /\ Color[w] # EmptyStr)
                      => Color'[w] = Color[w]
          /\ (pc[w] = "turn" /\ Color[w] = EmptyStr /\ pc'[w] # "turn")
             => /\ pc'[w] = "turnEnd"
                /\ outcome'[w] = "noColor"
                /\ llmCalls'[w] = llmCalls[w]
                /\ moveCalls'[w] = moveCalls[w]
          /\ (pc[w] = "turnEnd" /\ outcome[w] = "noColor" /\ pc'[w] # "turnEnd")
             => (pc'[w] = "select" /\ doneCh'[w] = "open")]_vars

\* A gameFull line with neither id the bot's and botSide white has made the
\* bot white.
C22_Witness ==
    \E w \in Workers :
        /\ pc[w] = "turn"
        /\ eventData[w].type = "gameFull"
        /\ eventData[w].white = OtherUserID
        /\ eventData[w].black = OtherUserID
        /\ eventData[w].botSide = White
        /\ Color[w] = White

\* C23: a line of the game stream that is not JSON, has no string type, has
\* an unknown type, or has a known type without the fields that type needs
\* (a gameFull line without state, a gameState line with neither moves nor
\* status, an opponentGone line without gone) is ignored: the goroutine stays in its read loop or goes on to the turn,
\* and the registry, the Game's fields and doneCh are as they were.
C23_UnusableRecordIgnored ==
    [][\A w \in Workers :
          LET line == eventData'[w]
              unusable ==
                  \/ line.type \in {"notJSON", "noType", "other"}
                  \/ line.type = "gameFull" /\ line.state = Absent
                  \/ line.type = "gameState"
                        /\ line.moves = Absent /\ line.status = Absent
                  \/ line.type = "opponentGone" /\ line.gone = Absent
          IN (pc[w] = "select" /\ line # eventData[w] /\ unusable)
             => /\ pc'[w] \in {"select", "turn"}
                /\ doneCh'[w] = doneCh[w]
                /\ Color'[w] = Color[w]
                /\ Moves'[w] = Moves[w]
                /\ opponentGone'[w] = opponentGone[w]
                /\ activeGames' = activeGames]_vars

\* C24: game.mu is not held while the oracle or the transport is called,
\* while the goroutine waits for the next line of the stream, or when it
\* returns: every branch of the switch and every path of checkAndMakeMove's
\* entry has released it, once, before the goroutine gets there.
C24_SessionLockNotHeldAcrossCalls ==
    \A w \in Workers :
        pc[w] \in {"select", "turn", "query", "submit", "requery", "turnEnd",
                   "deferred", "delete", "exited"}
        => mu[w] = Unlocked

\* A turn stands before makeMove with a move the oracle gave, game.mu free.
C24_Witness ==
    \E w \in Workers :
        /\ pc[w] = "submit"
        /\ llmCalls[w] > 0
        /\ mu[w] = Unlocked

\* C25: the lines of a game are handled one after the other by the game's
\* one goroutine: a line is read only from the head of the read loop, with
\* no turn under way; a turn that has begun runs to its return before the
\* goroutine reads again; no two goroutines are in a turn of the same game.
C25_OneRecordAtATime ==
    [][\A w \in Workers :
          /\ \A v \in Workers \ {w} :
                (pc'[v] \in {"turn", "query", "submit", "requery", "turnEnd"}
                   /\ pc'[w] \in {"turn", "query", "submit", "requery",
                                   "turnEnd"})
                => gameID'[v] # gameID'[w]
          /\ (eventData'[w] # eventData[w] /\ eventData'[w] # NoEvent)
             => /\ pc[w] = "select"
                /\ outcome[w] = ""
                /\ llmCalls[w] = 0
                /\ moveCalls[w] = 0
                /\ nextMove[w] = EmptyStr
                /\ attempt[w] = 0
          /\ (pc[w] \in {"turn", "query", "submit", "requery", "turnEnd"}
                 /\ pc'[w] \notin {"turn", "query", "submit", "requery",
                                    "turnEnd"})
             => (pc[w] = "turnEnd" /\ pc'[w] = "select")]_vars

\* A gameState line is being handled by a goroutine that has a colour: the
\* gameFull line that gave it, and the turn after it, are behind it.
C25_Witness ==
    \E w \in Workers :
        /\ pc[w] = "turn"
        /\ eventData[w].type = "gameState"
        /\ Len(Moves[w]) = 2
        /\ Color[w] = White
        /\ outcome[w] = ""
        /\ moveCalls[w] = 0

\* C26: a chatLine line, an opponentGone line and a line of an unhandled
\* type leave game.Moves, game.Color, doneCh and the registry as they were
\* and start no turn; the chatLine and the unhandled line change no field of
\* the Game; the opponentGone line changes opponentGone at most, to true
\* when its gone field is true, and the goroutine stays in its read loop.
C26_InformationalRecords ==
    [][\A w \in Workers :
          (pc[w] = "select" /\ eventData'[w] # eventData[w]
             /\ eventData'[w].type \in {"chatLine", "opponentGone", "other"})
          => /\ Moves'[w] = Moves[w]
             /\ Color'[w] = Color[w]
             /\ doneCh'[w] = doneCh[w]
             /\ closes'[w] = closes[w]
             /\ activeGames' = activeGames
             /\ pc'[w] = "select"
             /\ llmCalls'[w] = llmCalls[w]
             /\ moveCalls'[w] = moveCalls[w]
             /\ opponentGone'[w] =
                    IF eventData'[w].type = "opponentGone"
                    THEN (opponentGone[w] \/ eventData'[w].gone = JsonTrue)
                    ELSE opponentGone[w]]_vars

\* An opponentGone line with gone true has been handled: the flag is set,
\* doneCh is open and the goroutine is back at the head of its read loop.
C26_Witness ==
    \E w \in Workers :
        /\ pc[w] = "select"
        /\ eventData[w].type = "opponentGone"
        /\ eventData[w].gone = JsonTrue
        /\ opponentGone[w]
        /\ doneCh[w] = "open"
        /\ Color[w] # EmptyStr

\* C27: a move that getBestMoveFromLLM has returned, and that the turn is
\* about to submit, is 4 to 5 characters long and has no white space in it.
C27_OracleMoveInEnvelope ==
    \A w \in Workers :
        (pc[w] = "submit" /\ llmCalls[w] > 0)
        => /\ Len(nextMove[w]) \in 4..5
           /\ ~ContainsAny(nextMove[w], WhiteSpace)

\* C28: for each of LICHESS_TOKEN, OPENROUTER_API_KEY and PORT by itself, the
\* configuration LoadConfig returns holds the value the environment had for
\* it when that value is not empty, and the value the file .env gives it
\* only when the environment's value is empty or the name is not set.
C28_EnvironmentBeforeFile ==
    (~cfg.nil) =>
        LET inFile == loadEnvFromFileToSystem(<<>>, dotEnv)
            Holds(key, field) ==
                LET e == Getenv(environ0, key)
                    f == Getenv(inFile, key)
                IN /\ e # EmptyStr => field = e
                   /\ (e = EmptyStr /\ f # EmptyStr) => field = f
                   /\ (field # e /\ field = f) => e = EmptyStr
        IN /\ Holds(LICHESS_TOKEN, cfg.LichessToken)
           /\ Holds(OPENROUTER_API_KEY, cfg.OpenRouterAPIKey)
           /\ Holds(PORT, cfg.Port)

\* LICHESS_TOKEN is set in the environment and in the file, PORT in the
\* file only: the configuration has the environment's token and the file's
\* port.
C28_Witness ==
    /\ ~cfg.nil
    /\ Getenv(environ0, LICHESS_TOKEN) = EnvValueOf(LICHESS_TOKEN)
    /\ Getenv(environ0, PORT) = EmptyStr
    /\ Getenv(loadEnvFromFileToSystem(<<>>, dotEnv), LICHESS_TOKEN) = <<"f", "t">>
    /\ Getenv(loadEnvFromFileToSystem(<<>>, dotEnv), PORT)
           = <<"9", "0", "9", "0">>
    /\ cfg.LichessToken = EnvValueOf(LICHESS_TOKEN)
    /\ cfg.Port = <<"9", "0", "9", "0">>

\* C29: when LICHESS_TOKEN is empty in the environment and in the file,
\* LoadConfig returns no configuration and an error that names
\* LICHESS_TOKEN, whatever OPENROUTER_API_KEY is; when LICHESS_TOKEN has a
\* value and OPENROUTER_API_KEY is empty in both, it returns no
\* configuration and an error that names OPENROUTER_API_KEY.
C29_RequiredVariables ==
    (~cfg.nil \/ ~err.nil) =>
        LET inFile == loadEnvFromFileToSystem(<<>>, dotEnv)
            Empty(key) ==
                Getenv(environ0, key) = EmptyStr /\ Getenv(inFile, key) = EmptyStr
        IN /\ Empty(LICHESS_TOKEN)
              => /\ cfg.nil
                 /\ ~err.nil
                 /\ Contains(err.text, LICHESS_TOKEN)
                 /\ ~Contains(err.text, OPENROUTER_API_KEY)
           /\ (~Empty(LICHESS_TOKEN) /\ Empty(OPENROUTER_API_KEY))
              => /\ cfg.nil
                 /\ ~err.nil
                 /\ Contains(err.text, OPENROUTER_API_KEY)
                 /\ ~Contains(err.text, LICHESS_TOKEN)
           /\ cfg.nil # err.nil

\* LoadConfig was called with neither required name set anywhere, and
\* returned the LICHESS_TOKEN error.
C29_Witness ==
    /\ cfg.nil
    /\ ~err.nil
    /\ dotEnv.exists
    /\ Getenv(environ0, LICHESS_TOKEN) = EmptyStr
    /\ Getenv(environ0, OPENROUTER_API_KEY) = EmptyStr
    /\ Getenv(loadEnvFromFileToSystem(<<>>, dotEnv), LICHESS_TOKEN) = EmptyStr
    /\ Getenv(loadEnvFromFileToSystem(<<>>, dotEnv), OPENROUTER_API_KEY)
           = EmptyStr
    /\ Contains(err.text, LICHESS_TOKEN)

\* C30: when both required names have a value, in the environment or in the
\* file, and PORT has none in either (the file may be empty or missing),
\* LoadConfig returns a configuration, no error, and the port 8080.
C30_DefaultPort ==
    (~cfg.nil \/ ~err.nil) =>
        LET inFile == loadEnvFromFileToSystem(<<>>, dotEnv)
            Empty(key) ==
                Getenv(environ0, key) = EmptyStr /\ Getenv(inFile, key) = EmptyStr
        IN (~Empty(LICHESS_TOKEN) /\ ~Empty(OPENROUTER_API_KEY) /\ Empty(PORT))
           => /\ ~cfg.nil
              /\ err.nil
              /\ cfg.Port = <<"8", "0", "8", "0">>

\* Both required names are set in the environment, PORT is not, there is
\* no file, and the configuration has the port 8080.
C30_Witness ==
    /\ ~cfg.nil
    /\ ~dotEnv.exists
    /\ PORT \notin DOMAIN environ0
    /\ cfg.LichessToken = EnvValueOf(LICHESS_TOKEN)
    /\ cfg.OpenRouterAPIKey = EnvValueOf(OPENROUTER_API_KEY)
    /\ cfg.Port = <<"8", "0", "8", "0">>

\* C31: loadEnvFromFileToSystem goes through the file line by line. A blank
\* line, a comment, a line without "=" and a line with an empty key set
\* nothing and do not end the reading: every KEY=VALUE line before or after
\* them sets KEY to VALUE, both trimmed, with one pair of surrounding
\* double or single quotes removed from the value and quotes that do not
\* match kept; the last line that sets a name decides its value.
C31_EveryWellFormedLineIsSet ==
    loaded =>
        LET None == [set |-> FALSE, key |-> EmptyStr, value |-> EmptyStr]
            Sets(k, v) == [set |-> TRUE, key |-> k, value |-> v]
            Expected(line) ==
                IF line = <<"L", "I", "C", "H", "E", "S", "S", "_", "T", "O",
                            "K", "E", "N", "=", "f", "t">>
                THEN Sets(LICHESS_TOKEN, <<"f", "t">>)
                ELSE IF line = <<"O", "P", "E", "N", "R", "O", "U", "T", "E",
                                 "R", "_", "A", "P", "I", "_", "K", "E", "Y",
                                 "=", "'", "f", "k", "'">>
                THEN Sets(OPENROUTER_API_KEY, <<"f", "k">>)
                ELSE IF line = <<" ", "P", "O", "R", "T", " ", "=", " ", "\"",
                                 "9", "0", "9", "0", "\"", " ">>
                THEN Sets(PORT, <<"9", "0", "9", "0">>)
                ELSE IF line = <<"P", "O", "R", "T", "=">>
                THEN Sets(PORT, EmptyStr)
                ELSE IF line = <<"P", "O", "R", "T", "=", "\"", "9", "0", "'">>
                THEN Sets(PORT, <<"\"", "9", "0", "'">>)
                ELSE IF line = <<"P", "O", "R", "T", "=", "'", "8", "0">>
                THEN Sets(PORT, <<"'", "8", "0">>)
                ELSE None
            lines == IF dotEnv.exists THEN dotEnv.lines ELSE <<>>
            Setting(k) ==
                {i \in DOMAIN lines :
                    Expected(lines[i]).set /\ Expected(lines[i]).key = k}
            Last(k) == CHOOSE i \in Setting(k) : \A j \in Setting(k) : j <= i
        IN /\ DOMAIN environ =
                 DOMAIN environ0 \cup {k \in ConfigKeys : Setting(k) # {}}
           /\ \A k \in DOMAIN environ :
                 environ[k] = IF Setting(k) = {} THEN environ0[k]
                              ELSE Expected(lines[Last(k)]).value

\* The file has a line without "=" and then PORT='80; the call has set PORT
\* to '80, the quote kept.
C31_Witness ==
    /\ loaded
    /\ dotEnv.exists
    /\ dotEnv.lines = << <<"P", "O", "R", "T">>,
                         <<"P", "O", "R", "T", "=", "'", "8", "0">> >>
    /\ PORT \notin DOMAIN environ0
    /\ Getenv(environ, PORT) = <<"'", "8", "0">>

\* C32 as stated: within a turn the first query of the oracle carries no
\* feedback; every later query follows a rejection that can be retried and
\* carries feedback, not empty, that names the move just rejected; every
\* query passes the copy of the moves taken when the turn started.
C32_FirstQueryWithoutFeedback ==
    [][\A w \in Workers :
          (llmQuery'[w] # llmQuery[w] /\ llmQuery'[w].made)
          => /\ llmQuery'[w].moves = currentMovesForLLM[w]
             /\ currentMovesForLLM'[w] = currentMovesForLLM[w]
             /\ IF llmCalls[w] = 0
                THEN llmQuery'[w].feedback = EmptyStr
                ELSE /\ lastReply[w] = "illegal"
                     /\ llmQuery'[w].feedback # EmptyStr
                     /\ Contains(llmQuery'[w].feedback, nextMove[w])]_vars

\* C32, amended: within a turn a query of the oracle made before any
\* submission carries no feedback; every query made after a submission
\* follows a rejection that can be retried and carries feedback, not empty,
\* that names the move just rejected; every query passes the copy of the
\* moves taken when the turn started, which is game.Moves as it was then.
C32_FeedbackAfterRejection ==
    [][\A w \in Workers :
          /\ (llmQuery'[w] # llmQuery[w] /\ llmQuery'[w].made)
             => /\ llmQuery'[w].moves = currentMovesForLLM[w]
                /\ currentMovesForLLM'[w] = currentMovesForLLM[w]
                /\ IF moveCalls[w] = 0
                   THEN llmQuery'[w].feedback = EmptyStr
                   ELSE /\ lastReply[w] = "illegal"
                        /\ llmQuery'[w].feedback # EmptyStr
                        /\ Contains(llmQuery'[w].feedback, nextMove[w])
          /\ (pc[w] = "turn" /\ pc'[w] \in {"query", "submit"})
             => currentMovesForLLM'[w] = Moves[w]
          /\ (pc[w] \in {"query", "submit", "requery"}
                 /\ pc'[w] \in {"query", "submit", "requery"})
             => currentMovesForLLM'[w] = currentMovesForLLM[w]]_vars

\* The second query of a turn has been made, with feedback, after the
\* first one without, and has given another move.
C32_Witness ==
    \E w \in Workers :
        /\ pc[w] = "submit"
        /\ llmCalls[w] = 2
        /\ moveCalls[w] = 1
        /\ llmQuery[w].made
        /\ llmQuery[w].moves = currentMovesForLLM[w]
        /\ Contains(llmQuery[w].feedback, <<"e", "7", "e", "5">>)
        /\ nextMove[w] = <<"e", "7", "e", "6">>

\* C33: when the deferred function removes a game from the registry, the
\* game's doneCh has been closed: every return of the goroutine that comes
\* after the registration is preceded by close(game.doneCh).
C33_ClosedBeforeRemoval ==
    \A w \in Workers :
        (pc[w] \in {"deferred", "delete"} \/ (pc[w] = "exited" /\ removes[w] > 0))
        => doneCh[w] = "closed"

\* C34: checkAndMakeMove is not called for a gameFull line or a gameState
\* line whose status is a final one, so no move is submitted for it.
C34_NoTurnOnFinalStatus ==
    \A w \in Workers :
        (pc[w] = "turn" /\ eventData[w].type \in {"gameFull", "gameState"}
           /\ eventData[w].status # Absent)
        => ~isGameOver(eventData[w].status)

\* C35: the entry a goroutine's deferred function deletes from the registry
\* is the one that goroutine inserted, whatever the order of the returns
\* and of further gameStart events for the same game: no goroutine removes
\* an entry of another.
C35_RemovesOwnEntry ==
    \A w \in Workers :
        pc[w] \in {"deferred", "delete"} => activeGames[gameID[w]] = w

\* A goroutine is about to delete its entry after a second gameStart event
\* for its game was turned away.
C35_Witness ==
    \E w \in Workers :
        /\ pc[w] = "delete"
        /\ activeGames[gameID[w]] = w
        /\ \E v \in Workers \ {w} :
              /\ pc[v] = "exited"
              /\ exitWhy[v] = "duplicate"
              /\ gameID[v] = gameID[w]

\* C36: no goroutine holds activeGamesMutex and a Game's mu together, and
\* none waits for one of them while it holds the other: whoever holds
\* activeGamesMutex, a game goroutine or the /health handler, stands at a
\* statement from which it unlocks without waiting for anything, so no
\* wait can close into a cycle; and a goroutine that stands in a call to
\* the LLM, to the move endpoint or to the game stream holds neither lock,
\* so it keeps no other goroutine waiting.
C36_LocksNeverNested ==
    /\ \A w \in Workers :
          /\ ~(activeGamesMutex = w /\ mu[w] = Locked)
          /\ pc[w] \in {"lock", "deferred"} => mu[w] = Unlocked
          /\ activeGamesMutex = w => pc[w] \in {"check", "insert", "delete"}
          /\ pc[w] \in {"connect", "select", "query", "submit", "requery"}
             => (activeGamesMutex # w /\ mu[w] = Unlocked)
    /\ activeGamesMutex \in Workers \cup {Free, HealthHandler}

\* One goroutine stands in a call to the LLM or to the move endpoint while
\* the goroutine of another game waits for the registry lock, which the
\* /health handler holds.
C36_Witness ==
    \E w \in Workers, v \in Workers :
        /\ gameID[w] # gameID[v]
        /\ pc[w] \in {"query", "submit", "requery"}
        /\ pc[v] \in {"lock", "deferred"}
        /\ activeGamesMutex = HealthHandler

\* C37: game.opponentGone is false in a new Game; a step of its goroutine
\* that handles an opponentGone record with gone = true, and the step that
\* handles the end of the stream, leave it true; it turns true in no other
\* step; and once true it stays true as long as the Game lives, also over
\* an opponentGone record with gone = false.
C37_OpponentGoneMonotone ==
    [][\A w \in Workers :
          LET lives  == pc[w] \notin {"idle", "exited"}
              lives1 == pc'[w] \notin {"idle", "exited"}
              record == /\ pc[w] = "select"
                        /\ eventData'[w] # eventData[w]
                        /\ eventData'[w].type = "opponentGone"
              end    == pc[w] = "streamEnd" /\ pc'[w] = "deferred"
          IN  /\ (~lives /\ lives1) => ~opponentGone'[w]
              /\ (record /\ eventData'[w].gone = JsonTrue) => opponentGone'[w]
              /\ end => opponentGone'[w]
              /\ (lives /\ lives1 /\ ~opponentGone[w] /\ opponentGone'[w])
                 => (end \/ (record /\ eventData'[w].gone = JsonTrue))
              /\ (lives /\ lives1 /\ opponentGone[w]) => opponentGone'[w]
      ]_vars

\* C38: a challenge record with an id and status "created" starts one
\* call, acceptChallenge or declineChallenge; a record with another status
\* starts none; a created challenge whose variant key is not "standard" is
\* declined with standardOnly whoever the challenger is, and noBot is the
\* reason only of a decline of a standard challenge.
C38_OneAnswerVariantFirst ==
    LET c == answered.challenge
        calls == answered.calls
        isStandard == c.variant /\ c.key = Standard
    IN  /\ (c.id # Absent /\ c.status = Created)
           => /\ Len(calls) = 1
              /\ calls[1].call \in {"accept", "decline"}
              /\ ~isStandard => calls = <<DeclineCall("standardOnly")>>
        /\ c.status # Created => calls = <<>>
        /\ \A i \in 1..Len(calls) :
              calls[i] = DeclineCall("noBot") => isStandard

\* A chess960 challenge from a bot, or from the bot's own account, was
\* declined with standardOnly.
C38_Witness ==
    /\ answered.challenge.status = Created
    /\ answered.challenge.key = Chess960
    /\ \/ answered.challenge.bot = JsonTrue
       \/ answered.challenge.challengerID = botLichessUserID
    /\ answered.calls = <<DeclineCall("standardOnly")>>

\* C39: of the instances of streamLichessEvents that have not returned, at
\* most one reads the event stream: the newest one. An instance runs its go
\* statement once, after its read loop or its failed connection and its
\* sleep, never while it reads, and from then on it stands at its return.
C39_OneReadingDispatcher ==
    [][LET reading(d, o) ==
               (IF d.at = "scan" THEN 1 ELSE 0)
               + Cardinality({i \in 1..Len(o) : o[i].at = "scan"})
       IN  /\ reading(dpc', older') <= 1
           /\ \A i \in 1..Len(older') : older'[i].at = "return"
           /\ Len(older') > Len(older)
              => /\ dpc.at = "sleep"
                 /\ dpc'.at = "connect"
                 /\ Len(older') = Len(older) + 1
      ]_vars

\* The new instance reads the event stream while the instance that started
\* it has not yet returned and closed its response body.
C39_Witness ==
    /\ dpc.at = "scan"
    /\ \E i \in 1..Len(older) :
          older[i].at = "return" /\ older[i].body = "open"
    /\ \E w \in Workers : pc[w] = "select"

====
